---- MODULE Spec2Model ----
(***************************************************************************)
(* A model of the loan prediction backend: backend/loan_predictor.py (the  *)
(* validator, the feature builder, the decision composer and the predict   *)
(* facade).                                                                *)
(*                                                                         *)
(* Numbers.  Python floats are modelled as exact rationals.  A value that  *)
(* the code rounds to k decimals is held as the integer value * 10^k       *)
(* (round half to even, as Python's round and format do); the name of a    *)
(* field says its scale where it is not 1.  All applicant numbers of the   *)
(* model are integers.                                                     *)
(***************************************************************************)
EXTENDS Integers, Sequences, FiniteSets, TLC

VARIABLES
    applicant,   \* the mapping handed to LoanPredictor.predict
    predictor,   \* the LoanPredictor object: its construction outcome, its artifacts
                 \* and the file it was constructed from
    out,         \* outcome of the latest predict call on applicant
    prev,        \* outcome of the predict call before that
    invoked,     \* what the latest predict call invoked on the artifacts
    row,         \* the feature row the latest predict call built, << >> if none
    app_state_predictor,  \* app.state.predictor of the application
    started,     \* whether the startup of the application has run
    window_hits,        \* the requests the rate limiter has counted in its window
    received,     \* the latest request to the application
    response,    \* the response to it
    handled      \* the route handler that ran for it, "none" if none did

coreVars == <<applicant, predictor, out, prev, invoked, row>>
apiVars == <<app_state_predictor, started, window_hits, received, response, handled>>
vars == <<applicant, predictor, out, prev, invoked, row,
          app_state_predictor, started, window_hits, received, response, handled>>

(***************************************************************************)
(* Values of a mapping: a number, a string, None, or no entry at all.      *)
(***************************************************************************)
Num(n) == [t |-> "num", n |-> n, s |-> ""]
Str(s) == [t |-> "str", n |-> 0, s |-> s]
NoneVal == [t |-> "none", n |-> 0, s |-> ""]
Absent == [t |-> "absent", n |-> 0, s |-> ""]

\* `f in a`
Has(a, f) == a[f].t # "absent"

\* isinstance(v, (int, float))
IsNumber(v) == v.t = "num"

\* Python truthiness of a mapping value, as used by `a.get(f) or default`.
Truthy(v) ==
    \/ v.t = "num" /\ v.n # 0
    \/ v.t = "str" /\ v.s # ""

(***************************************************************************)
(* Constants of loan_predictor.py                                          *)
(***************************************************************************)
VALID ==
    [ loan_type |-> {"homeLoan", "carLoan", "educationLoan", "personalLoan", "bikeLoan"},
      gender |-> {"Male", "Female"},
      marital_status |-> {"Single", "Married", "Divorced"},
      education |-> {"Graduate", "Post-Graduate", "Undergraduate", "Diploma"},
      employment_type |-> {"Salaried", "Self-Employed", "Business", "Government", "Freelancer"},
      property_area |-> {"Urban", "Semi-Urban", "Rural"},
      course_type |-> {"Engineering", "Medical", "MBA", "Law", "Arts", "Science"},
      institution_tier |-> {"Tier-1", "Tier-2", "Tier-3"} ]

\* The keys of VALID in the order the dictionary lists them.
VALID_fields ==
    << "loan_type", "gender", "marital_status", "education", "employment_type",
       "property_area", "course_type", "institution_tier" >>

\* the table with the vehicle fields required of car loans alone
loan_type_required_disjoint ==
    [ homeLoan |-> << "property_value" >>,
      carLoan |-> << "vehicle_price", "vehicle_age_years" >>,
      bikeLoan |-> << >>,
      educationLoan |-> << "course_type", "institution_tier" >>,
      personalLoan |-> << >> ]

LOAN_TYPE_REQUIRED ==
    [ homeLoan |-> << "property_value" >>,
      carLoan |-> << "vehicle_price", "vehicle_age_years" >>,
      bikeLoan |-> << "vehicle_price", "vehicle_age_years" >>,
      educationLoan |-> << "course_type", "institution_tier" >>,
      personalLoan |-> << >> ]

NUMERIC_RANGES ==
    [ age |-> [lo |-> 18, hi |-> 70],
      credit_score |-> [lo |-> 300, hi |-> 900],
      monthly_income |-> [lo |-> 1000, hi |-> 10000000],
      coapplicant_income |-> [lo |-> 0, hi |-> 10000000],
      loan_amount_requested |-> [lo |-> 1000, hi |-> 100000000],
      loan_tenure_months |-> [lo |-> 1, hi |-> 480],
      dependents |-> [lo |-> 0, hi |-> 10],
      existing_loans_count |-> [lo |-> 0, hi |-> 20],
      existing_emis |-> [lo |-> 0, hi |-> 10000000],
      years_of_experience |-> [lo |-> 0, hi |-> 50] ]

\* The keys of NUMERIC_RANGES in the order the dictionary lists them.
NUMERIC_RANGES_fields ==
    << "age", "credit_score", "monthly_income", "coapplicant_income",
       "loan_amount_requested", "loan_tenure_months", "dependents",
       "existing_loans_count", "existing_emis", "years_of_experience" >>

TIER_MAP == [s \in {"Tier-1", "Tier-2", "Tier-3", "Unknown"} |->
                CASE s = "Tier-1" -> 3 [] s = "Tier-2" -> 2 [] s = "Tier-3" -> 1 [] OTHER -> 0]

CREDIT_BINS == << 0, 550, 600, 650, 700, 750, 800, 901 >>
CREDIT_LABELS == << 1, 2, 3, 4, 5, 6, 7 >>

required_base ==
    << "loan_type", "age", "gender", "marital_status", "dependents", "education",
       "employment_type", "years_of_experience", "monthly_income",
       "coapplicant_income", "credit_score", "existing_emis",
       "existing_loans_count", "property_area", "loan_amount_requested",
       "loan_tenure_months" >>

numeric_fields ==
    << "age", "monthly_income", "coapplicant_income", "credit_score",
       "existing_emis", "existing_loans_count", "loan_amount_requested",
       "loan_tenure_months", "dependents", "years_of_experience" >>

\* Every key an applicant mapping of the model may hold.
Fields ==
    { required_base[i] : i \in 1..Len(required_base) }
    \cup { "property_value", "vehicle_price", "vehicle_age_years",
           "course_type", "institution_tier", "name" }

(***************************************************************************)
(* LoanPredictor._validate: the list of error messages, in order.  A       *)
(* message is held as its kind, the field it names and, for a conditional  *)
(* field, the loan type.                                                   *)
(***************************************************************************)
ErrMsg(kind, f, arg) == [kind |-> kind, field |-> f, arg |-> arg]

\* One message of the given kind per field of the list fs.
ErrList(kind, fs, arg) == [i \in 1..Len(fs) |-> ErrMsg(kind, fs[i], arg)]

\* the comparison with the lower bound taken one too low
in_range_from_below(f, n) == NUMERIC_RANGES[f].lo - 1 <= n /\ n <= NUMERIC_RANGES[f].hi

\* the comparison with both bounds taken strictly
in_range_open(f, n) == NUMERIC_RANGES[f].lo < n /\ n < NUMERIC_RANGES[f].hi

InRange(f, n) == NUMERIC_RANGES[f].lo <= n /\ n <= NUMERIC_RANGES[f].hi

\* stage 4 of the method stopping at the first field the loan type requires
lacking_first_only(a) ==
    IF a["loan_type"].t = "str" /\ a["loan_type"].s \in DOMAIN LOAN_TYPE_REQUIRED
    THEN SelectSeq(SubSeq(LOAN_TYPE_REQUIRED[a["loan_type"].s], 1, 1), LAMBDA f : ~Has(a, f))
    ELSE << >>

\* stage 4 of the method: the fields the loan type requires and the mapping
\* lacks
lacking_fields(a) ==
    IF a["loan_type"].t = "str" /\ a["loan_type"].s \in DOMAIN LOAN_TYPE_REQUIRED
    THEN SelectSeq(LOAN_TYPE_REQUIRED[a["loan_type"].s], LAMBDA f : ~Has(a, f))
    ELSE << >>

\* the method without its two early returns: stages 1 to 3 accumulate
validate_without_early_return(a) ==
    ErrList("missing", SelectSeq(required_base, LAMBDA f : ~Has(a, f)), "")
    \o ErrList("type", SelectSeq(numeric_fields, LAMBDA f : Has(a, f) /\ ~IsNumber(a[f])), "")
    \o ErrList("category",
               SelectSeq(VALID_fields,
                         LAMBDA f : Has(a, f) /\ ~(a[f].t = "str" /\ a[f].s \in VALID[f])),
               "")

_validate(a) ==
    LET missing == SelectSeq(required_base, LAMBDA f : ~Has(a, f)) IN
    IF missing # << >>
    THEN ErrList("missing", missing, "")
    ELSE
    LET badtype == SelectSeq(numeric_fields, LAMBDA f : Has(a, f) /\ ~IsNumber(a[f])) IN
    IF badtype # << >>
    THEN ErrList("type", badtype, "")
    ELSE
    LET badcat == SelectSeq(VALID_fields,
                      LAMBDA f : Has(a, f) /\ ~(a[f].t = "str" /\ a[f].s \in VALID[f]))
        loan_type == a["loan_type"]
        lacking == lacking_fields(a)
        badrange == SelectSeq(NUMERIC_RANGES_fields,
                        LAMBDA f : Has(a, f) /\ IsNumber(a[f]) /\ ~InRange(f, a[f].n))
        total == IF a["monthly_income"].n + a["coapplicant_income"].n <= 0
                 THEN << ErrMsg("total_income", "monthly_income", "") >>
                 ELSE << >>
    IN  ErrList("category", badcat, "")
        \o ErrList("required_for", lacking, loan_type.s)
        \o ErrList("range", badrange, "")
        \o total

(***************************************************************************)
(* Arithmetic on rationals n/d (d > 0): round(n/d, k) * 10^k, rounding     *)
(* half to even.  The fraction is reduced first and the decimals are       *)
(* produced one at a time, so that no intermediate value leaves 32-bit     *)
(* integers.                                                               *)
(***************************************************************************)
RECURSIVE Gcd(_, _)
Gcd(a, b) == IF b = 0 THEN a ELSE Gcd(b, a % b)

RECURSIVE Expand(_, _, _, _)
Expand(whole, r, q, k) ==
    IF k = 0 THEN [w |-> whole, r |-> r]
    ELSE Expand(whole * 10 + (r * 10) \div q, (r * 10) % q, q, k - 1)

RoundNonneg(n, d, k) ==
    LET g == Gcd(n, d)
        p == n \div g
        q == d \div g
        e == Expand(p \div q, p % q, q, k)
    IN  IF 2 * e.r > q \/ (2 * e.r = q /\ e.w % 2 = 1) THEN e.w + 1 ELSE e.w

\* round(n / d, k), scaled by 10^k
Round(n, d, k) == IF n < 0 THEN 0 - RoundNonneg(0 - n, d, k) ELSE RoundNonneg(n, d, k)

\* n/d > a/b for positive d and b
RatioGreater(n, d, a, b) ==
    LET g == Gcd(IF n < 0 THEN 0 - n ELSE n, d)
        p == n \div g
        q == d \div g
    IN  IF p <= 0 THEN FALSE
        ELSE IF a < b /\ p >= q THEN TRUE
        ELSE b * p > a * q

Max(x, y) == IF x >= y THEN x ELSE y

(***************************************************************************)
(* pd.cut([cs], bins=CREDIT_BINS, labels=CREDIT_LABELS)[0]: the label of   *)
(* the right-closed bin (lo, hi] that holds cs; 0 stands for NaN, which    *)
(* pandas gives outside every bin.                                         *)
(***************************************************************************)
\* the cut giving the 0-based position of the bin rather than its label
credit_band_position(cs) ==
    LET hit == { i \in 1..Len(CREDIT_LABELS) : CREDIT_BINS[i] < cs /\ cs <= CREDIT_BINS[i + 1] }
    IN  IF hit = {} THEN 0 ELSE (CHOOSE i \in hit : TRUE) - 1

credit_band(cs) ==
    LET hit == { i \in 1..Len(CREDIT_LABELS) : CREDIT_BINS[i] < cs /\ cs <= CREDIT_BINS[i + 1] }
    IN  IF hit = {} THEN 0 ELSE CREDIT_LABELS[CHOOSE i \in hit : TRUE]

(***************************************************************************)
(* LoanPredictor._encode.  A label encoder of the artifacts is held as     *)
(* its classes_ (sorted, as LabelEncoder keeps them); transform gives the  *)
(* 0-based position and raises ValueError for a label it has not seen.     *)
(***************************************************************************)
Elems(s) == { s[i] : i \in 1..Len(s) }

_encode(encoders, col, val) ==
    IF col \notin DOMAIN encoders
    THEN [raised |-> "none", code |-> 0, transforms |-> 0]
    ELSE
    LET classes == encoders[col]
        safe_val == IF val \in Elems(classes) THEN val ELSE "Unknown"
    IN  IF safe_val \in Elems(classes)
        THEN [raised |-> "none",
              code |-> (CHOOSE i \in 1..Len(classes) : classes[i] = safe_val) - 1,
              transforms |-> 1]
        ELSE [raised |-> "ValueError", code |-> 0, transforms |-> 1]

\* The categorical columns in the order _build_features encodes them.
encoded_columns ==
    << "loan_type", "gender", "marital_status", "education", "employment_type",
       "property_area", "course_type", "institution_tier" >>

\* a.get(f) or "Unknown"
OrUnknown(v) == IF Truthy(v) THEN v.s ELSE "Unknown"

(***************************************************************************)
(* LoanPredictor._build_features, for an applicant that passed _validate.  *)
(* Gives the feature row, or the exception the method raises, and the      *)
(* number of encoder transforms it made.                                   *)
(***************************************************************************)
\* the _encode calls of the method, by column
encodings(encoders, a) ==
    [c \in Elems(encoded_columns) |->
        _encode(encoders, c,
                CASE c = "course_type" -> OrUnknown(a["course_type"])
                  [] c = "institution_tier" -> OrUnknown(a["institution_tier"])
                  [] OTHER -> a[c].s)]

\* the calls are made in order and the first that raises is the last made
encoding_outcome(enc) ==
    LET failing == { i \in 1..Len(encoded_columns) : enc[encoded_columns[i]].raised # "none" }
        first == IF failing = {} THEN Len(encoded_columns) + 1
                 ELSE CHOOSE i \in failing : \A j \in failing : i <= j
    IN  [raised |-> IF failing = {} THEN "none" ELSE "ValueError",
         transforms |-> Cardinality({ i \in 1..Len(encoded_columns) :
                            i <= first /\ enc[encoded_columns[i]].transforms = 1 })]

\* a.get(f) or 0
OrZero(v) == IF Truthy(v) THEN v ELSE Num(0)

\* the denominators of the divisions of the method, by where they divide
feature_denominators(a) ==
    [ tenure |-> Max(a["loan_tenure_months"].n, 1),
      safe_income |-> Max(a["monthly_income"].n + a["coapplicant_income"].n, 1),
      dependents_plus_1 |-> a["dependents"].n + 1,
      age_experience_denominator |-> Max(a["age"].n - 20, 1) ]

\* whether the method divides by property_value: `if property_value > 0`
ltv_divides(a) == OrZero(a["property_value"]).n > 0

feature_row(a, enc) ==
    LET total_income == a["monthly_income"].n + a["coapplicant_income"].n
        safe_income == Max(total_income, 1)
        tenure == Max(a["loan_tenure_months"].n, 1)
        amt == a["loan_amount_requested"].n
        emis == a["existing_emis"].n
        \* dti = (existing_emis + amt / tenure) / safe_income
        dti_n == emis * tenure + amt
        dti_d == tenure * safe_income
        property_value == OrZero(a["property_value"]).n
        institution_tier == OrUnknown(a["institution_tier"])
        age_experience_denominator == Max(a["age"].n - 20, 1)
    IN
      [ age |-> a["age"].n,
        dependents |-> a["dependents"].n,
        years_of_experience |-> a["years_of_experience"].n,
        monthly_income |-> a["monthly_income"].n,
        coapplicant_income |-> a["coapplicant_income"].n,
        credit_score |-> a["credit_score"].n,
        existing_emis |-> emis,
        existing_loans_count |-> a["existing_loans_count"].n,
        loan_amount_requested |-> amt,
        loan_tenure_months |-> tenure,
        debt_to_income_ratio |-> Round(dti_n, dti_d, 4),
        ltv_ratio |-> IF ltv_divides(a) THEN Round(amt, property_value, 4) ELSE 0,
        vehicle_age_years |-> OrZero(a["vehicle_age_years"]),
        total_income |-> total_income,
        emi_to_income_ratio |-> Round(amt, dti_d, 4),
        loan_to_income_ratio |-> Round(amt, safe_income, 4),
        income_stability_score |->
            Round(a["years_of_experience"].n * a["monthly_income"].n, 1000000, 4),
        credit_score_band |-> credit_band(a["credit_score"].n),
        has_coapplicant |-> IF a["coapplicant_income"].n > 0 THEN 1 ELSE 0,
        income_per_dependent |-> Round(total_income, a["dependents"].n + 1, 2),
        monthly_emi_projected |-> Round(amt, tenure, 2),
        free_monthly_income |-> Round((total_income - emis) * tenure - amt, tenure, 2),
        is_high_risk |->
            IF /\ RatioGreater(dti_n, dti_d, 6, 10)
               /\ a["credit_score"].n < 650
               /\ a["existing_loans_count"].n >= 2
            THEN 1 ELSE 0,
        age_experience_ratio |->
            Round(a["years_of_experience"].n, age_experience_denominator, 4),
        institution_tier_num |->
            IF institution_tier \in DOMAIN TIER_MAP THEN TIER_MAP[institution_tier] ELSE 0,
        loan_type_enc |-> enc["loan_type"].code,
        gender_enc |-> enc["gender"].code,
        marital_status_enc |-> enc["marital_status"].code,
        education_enc |-> enc["education"].code,
        employment_type_enc |-> enc["employment_type"].code,
        property_area_enc |-> enc["property_area"].code,
        course_type_enc |-> enc["course_type"].code,
        institution_tier_enc |-> enc["institution_tier"].code ]

NoRow(exc, transforms) == [raised |-> exc, transforms |-> transforms, row |-> << >>]

\* the method, given its encodings: the statements in order, each with the
\* exception it can raise
features_from(a, den, enc, encoded) ==
    IF den.tenure = 0 \/ den.safe_income = 0 THEN NoRow("ZeroDivisionError", 0)
    ELSE IF OrZero(a["property_value"]).t = "str" THEN NoRow("TypeError", 0)
    ELSE IF credit_band(a["credit_score"].n) = 0 THEN NoRow("ValueError", 0)
    ELSE IF den.dependents_plus_1 = 0 \/ den.age_experience_denominator = 0
    THEN NoRow("ZeroDivisionError", 0)
    ELSE IF encoded.raised # "none" THEN NoRow(encoded.raised, encoded.transforms)
    ELSE [raised |-> "none", transforms |-> encoded.transforms, row |-> feature_row(a, enc)]

encoded_features(a, enc) == features_from(a, feature_denominators(a), enc, encoding_outcome(enc))

_build_features(encoders, a) == encoded_features(a, encodings(encoders, a))

(***************************************************************************)
(* LoanPredictor._loan_grade.  A probability is held in units of 0.00001,  *)
(* so 0.90 is 90000.                                                       *)
(***************************************************************************)
grade_thresholds ==
    << [p |-> 90000, grade |-> "A+ (Excellent)"],
       [p |-> 80000, grade |-> "A  (Very Good)"],
       [p |-> 70000, grade |-> "B  (Good)"],
       [p |-> 60000, grade |-> "C  (Average)"],
       [p |-> 50000, grade |-> "D  (Below Average)"] >>

\* the method with strict comparisons: a threshold itself gets the lower grade
grade_above_threshold(prob) ==
    LET hit == { i \in 1..Len(grade_thresholds) : prob > grade_thresholds[i].p }
    IN  IF hit = {} THEN "E  (High Risk)"
        ELSE grade_thresholds[CHOOSE i \in hit : \A j \in hit : i <= j].grade

_loan_grade(prob) ==
    LET hit == { i \in 1..Len(grade_thresholds) : prob >= grade_thresholds[i].p }
    IN  IF hit = {} THEN "E  (High Risk)"
        ELSE grade_thresholds[CHOOSE i \in hit : \A j \in hit : i <= j].grade

(***************************************************************************)
(* LoanPredictor._rejection_reasons.  A message is held as its rule group  *)
(* and whether it is the hard or the soft one of the group.                *)
(***************************************************************************)
Reason(group, level) == [group |-> group, level |-> level]

\* the rule groups with the softer threshold of a group tested first
rule_reasons_soft_first(features, a) ==
    LET cs == a["credit_score"].n
        dti == features.debt_to_income_ratio
        fmi == features.free_monthly_income
        elc == a["existing_loans_count"].n
        lir == features.loan_to_income_ratio
    IN  (IF cs < 650 THEN << Reason("credit_score", "soft") >>
         ELSE IF cs < 600 THEN << Reason("credit_score", "hard") >> ELSE << >>)
        \o
        (IF dti > 5000 THEN << Reason("debt_to_income", "soft") >>
         ELSE IF dti > 6500 THEN << Reason("debt_to_income", "hard") >> ELSE << >>)
        \o
        (IF fmi < 500000 THEN << Reason("free_monthly_income", "soft") >>
         ELSE IF fmi <= 0 THEN << Reason("free_monthly_income", "hard") >> ELSE << >>)
        \o
        (IF elc >= 3 THEN << Reason("existing_loans", "soft") >>
         ELSE IF elc >= 4 THEN << Reason("existing_loans", "hard") >> ELSE << >>)
        \o
        (IF lir > 400000 THEN << Reason("loan_to_income", "hard") >> ELSE << >>)

\* the rule groups with the hard threshold of debt-to-income at 6.5
rule_reasons_dti_misplaced(features, a) ==
    LET cs == a["credit_score"].n
        dti == features.debt_to_income_ratio
        fmi == features.free_monthly_income
        elc == a["existing_loans_count"].n
        lir == features.loan_to_income_ratio
    IN  (IF cs < 600 THEN << Reason("credit_score", "hard") >>
         ELSE IF cs < 650 THEN << Reason("credit_score", "soft") >> ELSE << >>)
        \o
        (IF dti > 65000 THEN << Reason("debt_to_income", "hard") >>
         ELSE IF dti > 5000 THEN << Reason("debt_to_income", "soft") >> ELSE << >>)
        \o
        (IF fmi <= 0 THEN << Reason("free_monthly_income", "hard") >>
         ELSE IF fmi < 500000 THEN << Reason("free_monthly_income", "soft") >> ELSE << >>)
        \o
        (IF elc >= 4 THEN << Reason("existing_loans", "hard") >>
         ELSE IF elc >= 3 THEN << Reason("existing_loans", "soft") >> ELSE << >>)
        \o
        (IF lir > 400000 THEN << Reason("loan_to_income", "hard") >> ELSE << >>)

\* the messages of the rule groups, in the order the method appends them
rule_reasons(features, a) ==
    LET cs == a["credit_score"].n
        dti == features.debt_to_income_ratio
        fmi == features.free_monthly_income
        elc == a["existing_loans_count"].n
        lir == features.loan_to_income_ratio
    IN  (IF cs < 600 THEN << Reason("credit_score", "hard") >>
         ELSE IF cs < 650 THEN << Reason("credit_score", "soft") >> ELSE << >>)
        \o
        (IF dti > 6500 THEN << Reason("debt_to_income", "hard") >>
         ELSE IF dti > 5000 THEN << Reason("debt_to_income", "soft") >> ELSE << >>)
        \o
        (IF fmi <= 0 THEN << Reason("free_monthly_income", "hard") >>
         ELSE IF fmi < 500000 THEN << Reason("free_monthly_income", "soft") >> ELSE << >>)
        \o
        (IF elc >= 4 THEN << Reason("existing_loans", "hard") >>
         ELSE IF elc >= 3 THEN << Reason("existing_loans", "soft") >> ELSE << >>)
        \o
        (IF lir > 400000 THEN << Reason("loan_to_income", "hard") >> ELSE << >>)

\* the fallback message of the method
or_generic(reasons) ==
    IF reasons = << >> THEN << Reason("borderline", "generic") >> ELSE reasons

\* the method without its fallback: a list that may be empty
reasons_without_fallback(features, a) == rule_reasons(features, a)

_rejection_reasons(features, a) == or_generic(rule_reasons(features, a))

(***************************************************************************)
(* LoanPredictor._cs_label and LoanPredictor._breakdown.  A formatted      *)
(* number is held as the number the format shows, at the format's scale.   *)
(***************************************************************************)
cs_thresholds ==
    << [cs |-> 800, label |-> "Exceptional"],
       [cs |-> 750, label |-> "Very Good"],
       [cs |-> 700, label |-> "Good"],
       [cs |-> 650, label |-> "Fair"],
       [cs |-> 600, label |-> "Poor"] >>

_cs_label(cs) ==
    LET hit == { i \in 1..Len(cs_thresholds) : cs >= cs_thresholds[i].cs }
    IN  IF hit = {} THEN "Very Poor"
        ELSE cs_thresholds[CHOOSE i \in hit : \A j \in hit : i <= j].label

\* A breakdown entry that is either a formatted amount or the text "N/A".
Shown(v) == [na |-> FALSE, v |-> v]
NotAvailable == [na |-> TRUE, v |-> 0]

_breakdown(features, a, prob, sanctioned) ==
    LET total_income == features.total_income
        tenure == a["loan_tenure_months"].n
    IN
    [ financial_health |->
        [ total_monthly_income |-> total_income,
          existing_monthly_emis |-> a["existing_emis"].n,
          projected_new_emi |-> Round(features.monthly_emi_projected, 100, 0),
          free_monthly_income |-> Round(features.free_monthly_income, 100, 0),
          \* a ratio of 4 decimals shown as a percentage of 2 decimals: the
          \* same digits
          debt_to_income_ratio |-> features.debt_to_income_ratio,
          emi_to_income_ratio |-> features.emi_to_income_ratio ],
      credit_profile |->
        [ credit_score |-> a["credit_score"].n,
          credit_score_band |-> _cs_label(a["credit_score"].n),
          existing_loans |-> a["existing_loans_count"].n,
          is_high_risk_flag |-> features.is_high_risk # 0 ],
      loan_metrics |->
        [ amount_requested |-> a["loan_amount_requested"].n,
          tenure |-> [months |-> tenure, yrs |-> tenure \div 12, mo |-> tenure % 12],
          \* one decimal
          loan_to_income_ratio |-> Round(features.loan_to_income_ratio, 10000, 1),
          sanctioned_amount |-> IF sanctioned > 0 THEN Shown(sanctioned) ELSE NotAvailable,
          monthly_emi_if_approved |->
              IF sanctioned > 0 THEN Shown(Round(sanctioned, tenure, 0)) ELSE NotAvailable ],
      \* one decimal of a percentage
      approval_confidence |-> Round(prob, 1000, 1) ]

(***************************************************************************)
(* The model adapter.  The classifier and the regressor of the artifacts   *)
(* are deterministic stand-ins: the classifier answers predict_proba with  *)
(* prob and predict with label, or raises; the regressor answers with the  *)
(* rational n/d, taken times the requested amount when rel, or with NaN,   *)
(* or raises.                                                              *)
(***************************************************************************)
regressor_raw(reg, requested) ==
    [n |-> IF reg.rel THEN requested * reg.n ELSE reg.n, d |-> reg.d]

\* the conversion with the floor of the clip only: int(max(raw, 0))
clip_below_only(raw, requested) ==
    IF raw.n < 0 THEN 0 ELSE raw.n \div raw.d

\* int(np.clip(raw, 0, requested)) for the rational raw
clip_to_int(raw, requested) ==
    IF raw.n < 0 THEN 0
    ELSE IF raw.n > requested * raw.d THEN requested
    ELSE raw.n \div raw.d

\* The columns of the row _build_features returns.
row_columns ==
    { "age", "dependents", "years_of_experience", "monthly_income",
      "coapplicant_income", "credit_score", "existing_emis", "existing_loans_count",
      "loan_amount_requested", "loan_tenure_months", "debt_to_income_ratio",
      "ltv_ratio", "vehicle_age_years", "total_income", "emi_to_income_ratio",
      "loan_to_income_ratio", "income_stability_score", "credit_score_band",
      "has_coapplicant", "income_per_dependent", "monthly_emi_projected",
      "free_monthly_income", "is_high_risk", "age_experience_ratio",
      "institution_tier_num", "loan_type_enc", "gender_enc", "marital_status_enc",
      "education_enc", "employment_type_enc", "property_area_enc",
      "course_type_enc", "institution_tier_enc" }

Invoked(cls, reg, enc) == [classifier |-> cls, regressor |-> reg, encoders |-> enc]

Failure(exc, inv, features) ==
    [raised |-> exc, invoked |-> inv, features |-> features, result |-> << >>]

(***************************************************************************)
(* LoanPredictor._run_prediction: the result mapping, or the exception     *)
(* that leaves the method, with what was invoked on the artifacts.         *)
(***************************************************************************)
\* the denominators of the divisions made when an amount is sanctioned
result_denominators(a) ==
    [ requested |-> a["loan_amount_requested"].n, tenure |-> a["loan_tenure_months"].n ]

\* the mapping the method returns, once the models have answered
compose_result(a, features, prob, approved, sanctioned, inv) ==
    LET requested == a["loan_amount_requested"].n
        tenure == a["loan_tenure_months"].n
    IN
    IF sanctioned > 0 /\ (result_denominators(a).tenure = 0
                           \/ result_denominators(a).requested = 0)
    THEN Failure("ZeroDivisionError", inv, features)
    ELSE
    [ raised |-> "none",
      invoked |-> inv,
      features |-> features,
      result |->
        [ status |-> "success",
          loan_type |-> a["loan_type"].s,
          applicant_name |-> IF Has(a, "name") THEN a["name"] ELSE Str("Applicant"),
          approved |-> approved # 0,
          \* two decimals of a percentage
          approval_probability |-> Round(prob, 1000, 2),
          loan_grade |-> _loan_grade(prob),
          loan_amount_requested |-> requested,
          sanctioned_amount |-> sanctioned,
          \* a percentage of one decimal, in tenths of a percent
          sanction_ratio |-> IF sanctioned > 0 THEN Round(sanctioned, requested, 3) ELSE 0,
          monthly_emi |-> IF sanctioned > 0 THEN Round(sanctioned, tenure, 0) ELSE 0,
          rejection_reasons |-> IF approved # 0 THEN << >> ELSE _rejection_reasons(features, a),
          breakdown |-> _breakdown(features, a, prob, sanctioned) ]]

\* the method from the call of the regressor on
regress(a, features, cls, reg, transforms) ==
    IF cls.label # 0 /\ reg.kind = "raise"
    THEN Failure("ModelError", Invoked(2, 1, transforms), features)
    ELSE IF cls.label # 0 /\ reg.kind = "nan"
    THEN Failure("ValueError", Invoked(2, 1, transforms), features)
    ELSE compose_result(a, features, cls.prob, cls.label,
             IF cls.label # 0
             THEN clip_to_int(regressor_raw(reg, a["loan_amount_requested"].n),
                              a["loan_amount_requested"].n)
             ELSE 0,
             Invoked(2, IF cls.label # 0 THEN 1 ELSE 0, transforms))

\* the method from the selection of the feature columns on
classify(artifacts, a, bf) ==
    IF bf.raised # "none"
    THEN Failure(bf.raised, Invoked(0, 0, bf.transforms), << >>)
    ELSE IF ~(artifacts.feature_columns \subseteq row_columns)
    THEN Failure("KeyError", Invoked(0, 0, bf.transforms), bf.row)
    ELSE IF artifacts.classifier.raises
    THEN Failure("ModelError", Invoked(1, 0, bf.transforms), bf.row)
    ELSE regress(a, bf.row, artifacts.classifier, artifacts.regressor, bf.transforms)

_run_prediction(artifacts, a) ==
    classify(artifacts, a, _build_features(artifacts.label_encoders, a))

(***************************************************************************)
(* LoanPredictor.predict: what the call gives its caller.  elapsed_ms is   *)
(* what the clock measured for the call.                                   *)
(***************************************************************************)
Returned(value) == [kind |-> "returned", exc |-> "none", cause |-> "none", value |-> value]
Raised(exc, cause) == [kind |-> "raised", exc |-> exc, cause |-> cause, value |-> << >>]
NoCall == [kind |-> "none", exc |-> "none", cause |-> "none", value |-> << >>]

\* the try statement with a handler for ValueError only: every other
\* exception leaves predict as it is
finish_catching_value_errors(run, elapsed_ms) ==
    IF run.raised = "ValueError"
    THEN [outcome |-> Raised("PredictionError", run.raised),
          invoked |-> run.invoked, features |-> run.features]
    ELSE IF run.raised # "none"
    THEN [outcome |-> Raised(run.raised, "none"),
          invoked |-> run.invoked, features |-> run.features]
    ELSE [outcome |-> Returned([f \in DOMAIN run.result \cup {"processing_time_ms"} |->
                                   IF f = "processing_time_ms" THEN elapsed_ms
                                   ELSE run.result[f]]),
          invoked |-> run.invoked, features |-> run.features]

\* the try statement around _run_prediction and what follows it
finish(run, elapsed_ms) ==
    IF run.raised # "none"
    THEN [outcome |-> Raised("PredictionError", run.raised),
          invoked |-> run.invoked, features |-> run.features]
    ELSE [outcome |-> Returned([f \in DOMAIN run.result \cup {"processing_time_ms"} |->
                                   IF f = "processing_time_ms" THEN elapsed_ms
                                   ELSE run.result[f]]),
          invoked |-> run.invoked, features |-> run.features]

\* the method raising the module's ValidationError for a non-empty list
validated_or_raise(errors, artifacts, a, elapsed_ms) ==
    IF errors # << >>
    THEN [outcome |-> Raised("ValidationError", "none"),
          invoked |-> Invoked(0, 0, 0), features |-> << >>]
    ELSE finish(_run_prediction(artifacts, a), elapsed_ms)

\* the method after _validate has answered
validated(errors, artifacts, a, elapsed_ms) ==
    IF errors # << >>
    THEN [outcome |-> Returned([status |-> "error", errors |-> errors]),
          invoked |-> Invoked(0, 0, 0), features |-> << >>]
    ELSE finish(_run_prediction(artifacts, a), elapsed_ms)

predict(artifacts, a, elapsed_ms) == validated(_validate(a), artifacts, a, elapsed_ms)

(***************************************************************************)
(* ModelArtifacts.from_pickle.  A file is held as what the file system     *)
(* and pickle.load answer for it: whether the path exists and is a file,   *)
(* the exception open or load raises if any, whether the loaded object is  *)
(* a mapping, and the mapping itself.                                      *)
(***************************************************************************)
required_keys == {"classifier", "regressor", "scaler", "label_encoders", "feature_columns"}

from_pickle(file) ==
    IF ~file.exists THEN [raised |-> "ArtifactLoadError", artifacts |-> << >>]
    ELSE IF ~file.is_file THEN [raised |-> "ArtifactLoadError", artifacts |-> << >>]
    ELSE IF file.load \in {"UnpicklingError", "EOFError", "ValueError"}
    THEN [raised |-> "ArtifactLoadError", artifacts |-> << >>]
    ELSE IF file.load # "ok" THEN [raised |-> file.load, artifacts |-> << >>]
    ELSE IF ~file.mapping THEN [raised |-> "AttributeError", artifacts |-> << >>]
    ELSE IF required_keys \ DOMAIN file.arts # {}
    THEN [raised |-> "ArtifactLoadError", artifacts |-> << >>]
    ELSE [raised |-> "none",
          artifacts |-> [k \in required_keys |-> file.arts[k]]]

(***************************************************************************)
(* The artifact bundles of the model.                                      *)
(***************************************************************************)
\* classes_ of encoders fitted on the categories of VALID and "Unknown"
encoders_with_unknown ==
    [ loan_type |-> << "Unknown", "bikeLoan", "carLoan", "educationLoan", "homeLoan", "personalLoan" >>,
      gender |-> << "Female", "Male", "Unknown" >>,
      marital_status |-> << "Divorced", "Married", "Single", "Unknown" >>,
      education |-> << "Diploma", "Graduate", "Post-Graduate", "Undergraduate", "Unknown" >>,
      employment_type |-> << "Business", "Freelancer", "Government", "Salaried", "Self-Employed", "Unknown" >>,
      property_area |-> << "Rural", "Semi-Urban", "Unknown", "Urban" >>,
      course_type |-> << "Arts", "Engineering", "Law", "MBA", "Medical", "Science", "Unknown" >>,
      institution_tier |-> << "Tier-1", "Tier-2", "Tier-3", "Unknown" >> ]

\* the same encoders fitted without an "Unknown" category
encoders_without_unknown ==
    [c \in DOMAIN encoders_with_unknown |->
        SelectSeq(encoders_with_unknown[c], LAMBDA x : x # "Unknown")]

\* a bundle that lacks the encoders of the conditional columns
encoders_base_only ==
    [c \in DOMAIN encoders_with_unknown \ {"course_type", "institution_tier"} |->
        encoders_with_unknown[c]]

EncoderSets == { encoders_with_unknown, encoders_without_unknown, encoders_base_only }

Classifier(prob, label) == [raises |-> FALSE, prob |-> prob, label |-> label]
ClassifierRaises == [raises |-> TRUE, prob |-> 0, label |-> 0]

Regressor(rel, n, d) == [kind |-> "value", rel |-> rel, n |-> n, d |-> d]
RegressorNaN == [kind |-> "nan", rel |-> FALSE, n |-> 0, d |-> 1]
RegressorRaises == [kind |-> "raise", rel |-> FALSE, n |-> 0, d |-> 1]

\* two thirds of the requested amount, the requested amount, twice it; a
\* negative amount, zero, half a rupee
Regressors ==
    { Regressor(TRUE, 2, 3), Regressor(TRUE, 1, 1), Regressor(TRUE, 2, 1),
      Regressor(FALSE, -5000, 1), Regressor(FALSE, 0, 1), Regressor(FALSE, 1, 2),
      RegressorNaN, RegressorRaises }

\* the probabilities at and just below each grade threshold, and the ends
ProbValues ==
    {0, 78512, 100000}
    \cup { grade_thresholds[i].p : i \in 1..Len(grade_thresholds) }
    \cup { grade_thresholds[i].p - 1 : i \in 1..Len(grade_thresholds) }

Bundle(cls, reg, enc, cols) ==
    [ classifier |-> cls, regressor |-> reg, scaler |-> "scaler",
      label_encoders |-> enc, feature_columns |-> cols ]

Arts ==
    { Bundle(Classifier(78512, 1), reg, encoders_with_unknown, row_columns) :
        reg \in Regressors }
    \cup
    { Bundle(Classifier(78512, label), reg, encoders_with_unknown, row_columns) :
        label \in {0, 2}, reg \in {Regressor(TRUE, 2, 3), RegressorRaises} }
    \cup
    { Bundle(Classifier(prob, 1), Regressor(TRUE, 2, 3), encoders_with_unknown, row_columns) :
        prob \in ProbValues }
    \cup
    { Bundle(Classifier(78512, 1), Regressor(TRUE, 2, 3), enc, row_columns) :
        enc \in EncoderSets }
    \cup
    { Bundle(ClassifierRaises, Regressor(TRUE, 2, 3), encoders_with_unknown, row_columns),
      Bundle(Classifier(78512, 1), Regressor(TRUE, 2, 3), encoders_with_unknown,
             row_columns \cup {"city_tier"}) }

PickleFile(exists, is_file, load, mapping, arts) ==
    [exists |-> exists, is_file |-> is_file, load |-> load, mapping |-> mapping, arts |-> arts]

PickleFiles ==
    { PickleFile(TRUE, TRUE, "ok", TRUE, arts) : arts \in Arts }
    \cup
    { PickleFile(TRUE, TRUE, "ok", TRUE, [k \in required_keys \ {gone} |-> "object"]) :
        gone \in required_keys }
    \cup
    { PickleFile(TRUE, TRUE, load, FALSE, << >>) :
        load \in {"UnpicklingError", "EOFError", "ValueError", "PermissionError",
                  "ModuleNotFoundError"} }
    \cup
    { PickleFile(FALSE, FALSE, "ok", FALSE, << >>),
      PickleFile(TRUE, FALSE, "ok", FALSE, << >>),
      PickleFile(TRUE, TRUE, "ok", FALSE, << >>) }

(***************************************************************************)
(* The applicant mappings of the model: two base records, each with one    *)
(* entry changed; the first base record under every loan type with every   *)
(* choice of conditional entries; and records with several faults.         *)
(***************************************************************************)
\* the valid personal loan of the tests
Personal ==
    [ loan_type |-> Str("personalLoan"), age |-> Num(30), gender |-> Str("Male"),
      marital_status |-> Str("Single"), dependents |-> Num(0),
      education |-> Str("Graduate"), employment_type |-> Str("Salaried"),
      years_of_experience |-> Num(5), monthly_income |-> Num(50000),
      coapplicant_income |-> Num(0), credit_score |-> Num(720),
      existing_emis |-> Num(0), existing_loans_count |-> Num(0),
      property_area |-> Str("Urban"), loan_amount_requested |-> Num(500000),
      loan_tenure_months |-> Num(60),
      property_value |-> Absent, vehicle_price |-> Absent,
      vehicle_age_years |-> Absent, course_type |-> Absent,
      institution_tier |-> Absent, name |-> Absent ]

\* credit score 550, debt-to-income 0.7, 4 existing loans, loan-to-income 45
Stressed ==
    [ Personal EXCEPT
        !["credit_score"] = Num(550), !["monthly_income"] = Num(1000),
        !["loan_amount_requested"] = Num(45000), !["loan_tenure_months"] = Num(100),
        !["existing_emis"] = Num(250), !["existing_loans_count"] = Num(4) ]

NumsOf(ns) == { Num(n) : n \in ns }
StrsOf(ss) == { Str(x) : x \in ss }
Faulty == { Str("abc"), NoneVal, Absent }

FieldValues ==
    [ loan_type |-> StrsOf({"invalidType"}) \cup {Num(1), NoneVal, Absent},
      age |-> NumsOf({17, 18, 20, 21, 70, 71}) \cup Faulty,
      gender |-> StrsOf({"Female", "Other"}) \cup {NoneVal, Absent},
      marital_status |-> StrsOf({"Married", "Widowed"}) \cup {Absent},
      dependents |-> NumsOf({-1, 1, 10, 11}) \cup Faulty,
      education |-> StrsOf({"Diploma", "PhD"}) \cup {Absent},
      employment_type |-> StrsOf({"Business", "Unemployed"}) \cup {Absent},
      years_of_experience |-> NumsOf({-1, 0, 50, 51}) \cup Faulty,
      monthly_income |-> NumsOf({0, 999, 1000, 10000000, 10000001}) \cup Faulty,
      coapplicant_income |-> NumsOf({-1, 25000, 10000000, 10000001}) \cup Faulty,
      credit_score |-> NumsOf({299, 300, 550, 551, 599, 600, 649, 650, 700, 701,
                               750, 751, 800, 801, 900, 901})
                       \cup Faulty,
      existing_emis |-> NumsOf({-1, 250, 20000, 30000, 40000, 45000, 10000000, 10000001})
                        \cup Faulty,
      existing_loans_count |-> NumsOf({-1, 2, 3, 4, 20, 21}) \cup Faulty,
      property_area |-> StrsOf({"Rural", "Suburban"}) \cup {Absent},
      loan_amount_requested |-> NumsOf({999, 1000, 45000, 2500000, 100000000, 100000001})
                                \cup Faulty,
      loan_tenure_months |-> NumsOf({0, 1, 6, 480, 481}) \cup Faulty,
      property_value |-> NumsOf({-5, 0, 400000, 5000000}) \cup {Str("abc"), Str(""), NoneVal},
      vehicle_price |-> NumsOf({800000}) \cup {NoneVal},
      vehicle_age_years |-> NumsOf({0, 3}) \cup {Str("abc"), NoneVal},
      course_type |-> StrsOf({"MBA", "Dance", ""}) \cup {NoneVal},
      institution_tier |-> StrsOf({"Tier-1", "Tier-9"}) \cup {NoneVal},
      name |-> StrsOf({"Rohan Sharma", ""}) \cup {NoneVal} ]

\* base with the entry of one of the fields fs changed
OneChanged(base, fs) ==
    UNION { { [base EXCEPT ![f] = v] : v \in FieldValues[f] } : f \in fs }

\* base under each loan type, with each of the entries that loan type
\* requires there or not
LoanFamily(base) ==
    { [base EXCEPT !["loan_type"] = Str("homeLoan"), !["property_value"] = pv] :
        pv \in {Absent, Num(5000000)} }
    \cup
    { [base EXCEPT !["loan_type"] = Str(lt), !["vehicle_price"] = vp,
                   !["vehicle_age_years"] = va] :
        lt \in {"carLoan", "bikeLoan"},
        vp \in {Absent, Num(800000)}, va \in {Absent, Num(3)} }
    \cup
    { [base EXCEPT !["loan_type"] = Str("educationLoan"), !["course_type"] = ct,
                   !["institution_tier"] = it] :
        ct \in {Absent, Str("MBA")}, it \in {Absent, Str("Tier-1")} }

conditional_fields ==
    {"property_value", "vehicle_price", "vehicle_age_years", "course_type", "institution_tier"}

\* base under loan type lt with every conditional entry given
Complete(base, lt) ==
    [base EXCEPT !["loan_type"] = Str(lt), !["property_value"] = Num(5000000),
                 !["vehicle_price"] = Num(800000), !["vehicle_age_years"] = Num(3),
                 !["course_type"] = Str("MBA"), !["institution_tier"] = Str("Tier-1")]

MultiFault ==
    { [Personal EXCEPT !["age"] = Absent, !["credit_score"] = Absent],
      [Personal EXCEPT !["age"] = Absent, !["dependents"] = Str("abc"),
                       !["gender"] = Str("Other")],
      [Personal EXCEPT !["age"] = Str("abc"), !["monthly_income"] = NoneVal],
      [Personal EXCEPT !["age"] = Str("abc"), !["credit_score"] = Num(901),
                       !["gender"] = Str("Other"), !["loan_type"] = Str("carLoan")],
      [Personal EXCEPT !["age"] = Num(71), !["credit_score"] = Num(901),
                       !["dependents"] = Num(11)],
      [Personal EXCEPT !["monthly_income"] = Num(0), !["coapplicant_income"] = Num(0)],
      [Personal EXCEPT !["monthly_income"] = Num(1000), !["coapplicant_income"] = Num(-1000)],
      [Personal EXCEPT !["loan_type"] = Str("carLoan"), !["gender"] = Str("Other"),
                       !["age"] = Num(71)] }

\* Stressed with one of the rule groups eased
StressedVariants ==
    { [Stressed EXCEPT !["credit_score"] = Num(600)],
      [Stressed EXCEPT !["credit_score"] = Num(650)],
      [Stressed EXCEPT !["existing_emis"] = Num(0)],
      [Stressed EXCEPT !["existing_emis"] = Num(1000)],
      [Stressed EXCEPT !["existing_loans_count"] = Num(3)],
      [Stressed EXCEPT !["existing_loans_count"] = Num(0)],
      [Stressed EXCEPT !["loan_amount_requested"] = Num(40000)],
      [Stressed EXCEPT !["loan_amount_requested"] = Num(1000)] }

Applicants ==
    {Personal, Stressed}
    \cup OneChanged(Personal, Fields)
    \cup StressedVariants
    \cup LoanFamily(Personal)
    \cup UNION { OneChanged(Complete(Personal, lt), conditional_fields) :
                   lt \in {"homeLoan", "carLoan", "educationLoan"} }
    \cup MultiFault

(***************************************************************************)
(* schemas.py: the request schema LoanPredictRequest.  A JSON body is held *)
(* as an applicant mapping is: by field, a number, a string, null (None)   *)
(* or no entry.                                                            *)
(***************************************************************************)
\* the field declarations of the class, in the order of the class body
schema_fields ==
    << "loan_type", "name", "age", "gender", "marital_status", "dependents",
       "education", "employment_type", "years_of_experience", "property_area",
       "monthly_income", "coapplicant_income", "credit_score", "existing_emis",
       "existing_loans_count", "loan_amount_requested", "loan_tenure_months",
       "property_value", "vehicle_price", "vehicle_age_years", "course_type",
       "institution_tier" >>

\* A declaration: the type, the default (Absent for a required field),
\* whether None is a value of the type, and the ge and le constraints, each
\* a sequence that is empty when the field has none.
EnumField(options, default) ==
    [type |-> "enum", options |-> options, default |-> default, optional |-> FALSE,
     ge |-> << >>, le |-> << >>, max_length |-> << >>]

OptionalEnumField(options) ==
    [type |-> "enum", options |-> options, default |-> NoneVal, optional |-> TRUE,
     ge |-> << >>, le |-> << >>, max_length |-> << >>]

IntField(default, ge, le) ==
    [type |-> "int", options |-> {}, default |-> default, optional |-> FALSE,
     ge |-> ge, le |-> le, max_length |-> << >>]

OptionalIntField(ge, le) ==
    [type |-> "int", options |-> {}, default |-> NoneVal, optional |-> TRUE,
     ge |-> ge, le |-> le, max_length |-> << >>]

OptionalStrField(max_length) ==
    [type |-> "str", options |-> {}, default |-> NoneVal, optional |-> TRUE,
     ge |-> << >>, le |-> << >>, max_length |-> max_length]

LoanPredictRequest_fields ==
    [ loan_type |-> EnumField({"homeLoan", "carLoan", "bikeLoan", "educationLoan",
                               "personalLoan"}, Absent),
      name |-> OptionalStrField(<< 100 >>),
      age |-> IntField(Absent, << 18 >>, << 70 >>),
      gender |-> EnumField({"Male", "Female"}, Str("Male")),
      marital_status |-> EnumField({"Single", "Married", "Divorced"}, Absent),
      dependents |-> IntField(Num(0), << 0 >>, << 10 >>),
      education |-> EnumField({"Graduate", "Post-Graduate", "Undergraduate", "Diploma"},
                              Absent),
      employment_type |-> EnumField({"Salaried", "Self-Employed", "Business",
                                     "Government", "Freelancer"}, Absent),
      years_of_experience |-> IntField(Absent, << 0 >>, << 50 >>),
      property_area |-> EnumField({"Urban", "Semi-Urban", "Rural"}, Absent),
      monthly_income |-> IntField(Absent, << 1 >>, << >>),
      coapplicant_income |-> IntField(Num(0), << 0 >>, << >>),
      credit_score |-> IntField(Absent, << 300 >>, << 900 >>),
      existing_emis |-> IntField(Num(0), << 0 >>, << >>),
      existing_loans_count |-> IntField(Num(0), << 0 >>, << 20 >>),
      loan_amount_requested |-> IntField(Absent, << 10000 >>, << >>),
      loan_tenure_months |-> IntField(Absent, << 6 >>, << 480 >>),
      property_value |-> OptionalIntField(<< 1 >>, << >>),
      vehicle_price |-> OptionalIntField(<< 1 >>, << >>),
      vehicle_age_years |-> OptionalIntField(<< 0 >>, << 30 >>),
      course_type |-> OptionalEnumField({"Engineering", "Medical", "MBA", "Law",
                                         "Arts", "Science"}),
      institution_tier |-> OptionalEnumField({"Tier-1", "Tier-2", "Tier-3"}) ]

_LOAN_TYPE_REQUIRED_FIELDS ==
    [ homeLoan |-> << "property_value" >>,
      carLoan |-> << "vehicle_price", "vehicle_age_years" >>,
      bikeLoan |-> << "vehicle_price", "vehicle_age_years" >>,
      educationLoan |-> << "course_type", "institution_tier" >>,
      personalLoan |-> << >> ]

\* An error of the schema: its kind, the fields it names and, for the
\* conditional fields, the loan type.
SchemaError(kind, fs, arg) == [kind |-> kind, fields |-> fs, arg |-> arg]

\* sanitize_html on the names of the model: the tags are removed and the
\* white space is collapsed
sanitize_html(text) ==
    CASE text = "<b>Rohan</b> Sharma" -> "Rohan Sharma"
      [] text = "  Rohan   Sharma " -> "Rohan Sharma"
      [] OTHER -> text

\* the validator sanitize_name, which runs before the field is validated
sanitize_name(v) == IF v.t = "str" THEN Str(sanitize_html(v.s)) ELSE v

\* the validation of one field of the body: the kind of the error, or "none"
field_error(decl, v) ==
    IF v.t = "absent" THEN (IF decl.default = Absent THEN "missing" ELSE "none")
    ELSE IF v.t = "none" THEN (IF decl.optional THEN "none" ELSE decl.type \o "_type")
    ELSE IF decl.type = "enum"
    THEN (IF v.t = "str" /\ v.s \in decl.options THEN "none" ELSE "enum")
    ELSE IF decl.type = "int"
    THEN (IF v.t # "num" THEN "int_parsing"
          ELSE IF decl.ge # << >> /\ v.n < decl.ge[1] THEN "greater_than_equal"
          ELSE IF decl.le # << >> /\ v.n > decl.le[1] THEN "less_than_equal"
          ELSE "none")
    ELSE (IF v.t # "str" THEN "string_type"
          ELSE IF decl.max_length # << >> /\ Len(v.s) > decl.max_length[1]
          THEN "string_too_long"
          ELSE "none")

\* the value a field has on the validated model
field_value(decl, v) == IF v.t = "absent" THEN decl.default ELSE v

\* the body as the field validators see it
before_validators(body) == [body EXCEPT !["name"] = sanitize_name(@)]

\* The model validators, in the order of the class body.  Each gives the
\* error it raises, or << >>.
\* the validator asking only for the first field the loan type requires
conditional_first_only(m) ==
    IF Len(_LOAN_TYPE_REQUIRED_FIELDS[m["loan_type"].s]) > 0
       /\ m[_LOAN_TYPE_REQUIRED_FIELDS[m["loan_type"].s][1]] = NoneVal
    THEN << SchemaError("required_for",
                        << _LOAN_TYPE_REQUIRED_FIELDS[m["loan_type"].s][1] >>,
                        m["loan_type"].s) >>
    ELSE << >>

validate_conditional_fields(m) ==
    LET missing == SelectSeq(_LOAN_TYPE_REQUIRED_FIELDS[m["loan_type"].s],
                             LAMBDA f : m[f] = NoneVal)
    IN  IF missing # << >>
        THEN << SchemaError("required_for", missing, m["loan_type"].s) >>
        ELSE << >>

total_income_must_be_positive(m) ==
    IF m["monthly_income"].n + m["coapplicant_income"].n <= 0
    THEN << SchemaError("total_income", << "monthly_income", "coapplicant_income" >>, "") >>
    ELSE << >>

\* loan_amount_requested / loan_tenure_months < 100, the tenure being positive
loan_amount_reasonable_vs_tenure(m) ==
    IF m["loan_amount_requested"].n < 100 * m["loan_tenure_months"].n
    THEN << SchemaError("instalment", << "loan_amount_requested", "loan_tenure_months" >>, "") >>
    ELSE << >>

\* the first of the model validators that raises ends the validation
model_validators(m) ==
    IF validate_conditional_fields(m) # << >> THEN validate_conditional_fields(m)
    ELSE IF total_income_must_be_positive(m) # << >> THEN total_income_must_be_positive(m)
    ELSE loan_amount_reasonable_vs_tenure(m)

\* the errors of the fields of a body, in the order of the declarations
field_errors(body) ==
    LET bad == SelectSeq(schema_fields,
                   LAMBDA f : field_error(LoanPredictRequest_fields[f], body[f]) # "none")
    IN  [i \in 1..Len(bad) |->
            SchemaError(field_error(LoanPredictRequest_fields[bad[i]], body[bad[i]]),
                        << bad[i] >>, "")]

\* the validated model of a body whose fields have no error
field_values(body) ==
    [f \in Elems(schema_fields) |-> field_value(LoanPredictRequest_fields[f], body[f])]

\* the validation once the fields are validated
validated_request(errors, body) ==
    IF errors # << >> THEN [errors |-> errors, model |-> << >>]
    ELSE IF model_validators(field_values(body)) # << >>
    THEN [errors |-> model_validators(field_values(body)), model |-> << >>]
    ELSE [errors |-> << >>, model |-> field_values(body)]

\* LoanPredictRequest(**body): the validated model, or the errors of the
\* ValidationError
LoanPredictRequest(body) ==
    validated_request(field_errors(before_validators(body)), before_validators(body))

(***************************************************************************)
(* main.py: _request_to_applicant.                                         *)
(***************************************************************************)
applicant_base_fields ==
    { "loan_type", "age", "gender", "marital_status", "dependents", "education",
      "employment_type", "years_of_experience", "monthly_income", "coapplicant_income",
      "credit_score", "existing_emis", "existing_loans_count", "property_area",
      "loan_amount_requested", "loan_tenure_months" }

optional_fields ==
    { "property_value", "vehicle_price", "vehicle_age_years", "course_type",
      "institution_tier" }

_request_to_applicant(req) ==
    [f \in Fields |->
        IF f \in applicant_base_fields THEN req[f]
        ELSE IF f \in optional_fields /\ req[f] # NoneVal THEN req[f]
        ELSE Absent]

(***************************************************************************)
(* main.py: the application.  A request is held as its method, its path,   *)
(* its Origin, Referer and X-Correlation-ID headers and its JSON body.     *)
(* The value of an Origin or Referer header is held as the entry of        *)
(* ALLOWED_ORIGINS it begins with, if any, and the text that follows it.   *)
(* None of the requests is a CORS preflight, so CORSMiddleware passes each *)
(* on and changes no status.                                               *)
(***************************************************************************)
ALLOWED_ORIGINS ==
    { "http://localhost:5173", "http://localhost:3000",
      "http://127.0.0.1:5173", "http://127.0.0.1:3000" }

Header(allowed_prefix, rest) == [present |-> TRUE, prefix |-> allowed_prefix, rest |-> rest]
NoHeader == [present |-> FALSE, prefix |-> "", rest |-> ""]

\* `origin or referer`
OrHeader(origin, referer) ==
    IF origin.present /\ (origin.prefix # "" \/ origin.rest # "") THEN origin ELSE referer

\* source.startswith(o)
startswith(source, o) == source.prefix = o

\* the limit of the predict route, in requests a minute
RateLimit == 10

Reply(status, kind, content) == [status |-> status, kind |-> kind, content |-> content]

NoApplicant == [f \in Fields |-> Absent]
NoPredictCall == [outcome |-> NoCall, invoked |-> Invoked(0, 0, 0), features |-> << >>]

\* What serving a request comes to: the reply, the route handler that ran,
\* the requests counted by the limiter, and the predict call with its
\* applicant if the handler made one.
Served(reply, handler, hits, a, call) ==
    [reply |-> reply, handler |-> handler, hits |-> hits, applicant |-> a, call |-> call]

\* the route answering 200 with whatever mapping the predictor returned
predicted_without_error_guard(call, a, hits) ==
    IF call.outcome.kind = "raised"
    THEN Served(Reply(500, "detail", "Model inference failed"), "predict", hits, a, call)
    ELSE Served(Reply(200, "result", call.outcome.value), "predict", hits, a, call)

\* the route predict from the predict call on
predicted(call, a, hits) ==
    IF call.outcome.kind = "raised" /\ call.outcome.exc = "PredictionError"
    THEN Served(Reply(500, "detail", "Model inference failed"), "predict", hits, a, call)
    ELSE IF call.outcome.kind = "raised"
    THEN Served(Reply(500, "detail", "An internal server error occurred"), "predict",
                hits, a, call)
    ELSE IF call.outcome.value.status = "error"
    THEN Served(Reply(422, "prediction_layer", call.outcome.value.errors), "predict",
                hits, a, call)
    ELSE Served(Reply(200, "result", call.outcome.value), "predict", hits, a, call)

\* the route predict
predict_route(app_predictor, req, hits, elapsed_ms) ==
    IF app_predictor.kind = "None"
    THEN Served(Reply(503, "detail", "Model not loaded"), "predict", hits,
                NoApplicant, NoPredictCall)
    ELSE predicted(predict(app_predictor.artifacts, _request_to_applicant(req), elapsed_ms),
                   _request_to_applicant(req), hits)

\* the decorator limiter.limit of the route predict
limited(app_predictor, req, hits, elapsed_ms) ==
    IF hits >= RateLimit
    THEN Served(Reply(429, "detail", "Rate limit exceeded"), "none", RateLimit + 1,
                NoApplicant, NoPredictCall)
    ELSE predict_route(app_predictor, req, hits + 1, elapsed_ms)

\* the validation of the body parameter of the route predict
with_body(app_predictor, parsed, hits, elapsed_ms) ==
    IF parsed.errors # << >>
    THEN Served(Reply(422, "request_validation", parsed.errors), "none", hits,
                NoApplicant, NoPredictCall)
    ELSE limited(app_predictor, parsed.model, hits, elapsed_ms)

\* the routes root and health
root(app_predictor) ==
    Reply(200, "root",
          [model_loaded |-> app_predictor.kind # "None",
           status |-> IF app_predictor.kind # "None" THEN "ok" ELSE "model_not_loaded"])

\* the route health answering 200 whatever the predictor
health_always_ok(app_predictor) ==
    Reply(200, "health",
          [model_loaded |-> app_predictor.kind # "None",
           status |-> IF app_predictor.kind # "None" THEN "ok" ELSE "degraded"])

health(app_predictor) ==
    Reply(IF app_predictor.kind # "None" THEN 200 ELSE 503, "health",
          [model_loaded |-> app_predictor.kind # "None",
           status |-> IF app_predictor.kind # "None" THEN "ok" ELSE "degraded"])

Routes == { <<"GET", "/">>, <<"GET", "/health">>, <<"POST", "/predict">> }

\* the router of the application
route(app_predictor, request, hits, elapsed_ms) ==
    IF request.path \notin { r[2] : r \in Routes }
    THEN Served(Reply(404, "detail", "Not Found"), "none", hits, NoApplicant, NoPredictCall)
    ELSE IF << request.method, request.path >> \notin Routes
    THEN Served(Reply(405, "detail", "Method Not Allowed"), "none", hits,
                NoApplicant, NoPredictCall)
    ELSE IF request.path = "/"
    THEN Served(root(app_predictor), "root", hits, NoApplicant, NoPredictCall)
    ELSE IF request.path = "/health"
    THEN Served(health(app_predictor), "health", hits, NoApplicant, NoPredictCall)
    ELSE with_body(app_predictor, LoanPredictRequest(request.body), hits, elapsed_ms)

\* a reply with the headers the middlewares have set on it
WithCorrelation(served, correlation_id) ==
    [served EXCEPT !.reply =
        [status |-> @.status, kind |-> @.kind, content |-> @.content,
         correlation_id |-> correlation_id]]

\* the id the middleware takes when the request gives none: a fresh uuid
FreshUuid == "uuid4"

\* the middleware add_correlation_id_and_log around what it calls next
add_correlation_id_and_log(served, request) ==
    WithCorrelation(served,
        IF request.correlation_id.present THEN request.correlation_id
        ELSE [present |-> TRUE, value |-> FreshUuid])

NoCorrelation == [present |-> FALSE, value |-> ""]

\* the middleware csrf_protection_middleware, the outermost of the three:
\* it was added last
csrf_protection_middleware(app_predictor, request, hits, elapsed_ms) ==
    IF request.method \in {"GET", "HEAD", "OPTIONS", "TRACE"}
    THEN add_correlation_id_and_log(route(app_predictor, request, hits, elapsed_ms), request)
    ELSE IF ~OrHeader(request.origin, request.referer).present
    THEN WithCorrelation(
            Served(Reply(403, "detail", "CSRF protection: Missing Origin or Referer header"),
                   "none", hits, NoApplicant, NoPredictCall),
            NoCorrelation)
    ELSE IF ~\E o \in ALLOWED_ORIGINS : startswith(OrHeader(request.origin, request.referer), o)
    THEN WithCorrelation(
            Served(Reply(403, "detail", "CSRF protection: Source is not trusted"),
                   "none", hits, NoApplicant, NoPredictCall),
            NoCorrelation)
    ELSE add_correlation_id_and_log(route(app_predictor, request, hits, elapsed_ms), request)

\* app.state.predictor
NonePredictor == [kind |-> "None", artifacts |-> << >>]
MockPredictor == [kind |-> "Mock", artifacts |-> << >>]
LoadedPredictor(artifacts) == [kind |-> "LoanPredictor", artifacts |-> artifacts]

\* the startup without its first assignment: a failed load leaves
\* app.state.predictor unset
lifespan_without_reset(file) ==
    IF ~file.exists THEN [kind |-> "Unset", artifacts |-> << >>]
    ELSE IF from_pickle(file).raised # "none" THEN [kind |-> "Unset", artifacts |-> << >>]
    ELSE LoadedPredictor(from_pickle(file).artifacts)

\* the startup part of lifespan: the predictor it leaves on app.state
lifespan(file) ==
    IF ~file.exists THEN NonePredictor
    ELSE IF from_pickle(file).raised # "none" THEN NonePredictor
    ELSE LoadedPredictor(from_pickle(file).artifacts)

(***************************************************************************)
(* The requests and the artifact files of the application.                 *)
(***************************************************************************)
Request(method, path, origin, referer, correlation_id, body) ==
    [method |-> method, path |-> path, origin |-> origin, referer |-> referer,
     correlation_id |-> correlation_id, body |-> body]

NoRequest == Request("", "", NoHeader, NoHeader, NoCorrelation, NoApplicant)
NoResponse == [status |-> 0, kind |-> "none", content |-> << >>, correlation_id |-> NoCorrelation]

\* the Origin and Referer headers of a request: none; an allowed origin; a
\* foreign origin; a foreign origin that begins with an allowed one; an
\* allowed page as referer, alone and under a foreign origin
HeaderSets ==
    { << NoHeader, NoHeader >>,
      << Header("http://localhost:5173", ""), NoHeader >>,
      << Header("", "http://evil.example"), NoHeader >>,
      << Header("http://localhost:5173", ".evil.example"), NoHeader >>,
      << NoHeader, Header("http://127.0.0.1:3000", "/apply") >>,
      << Header("", "http://evil.example"), Header("http://127.0.0.1:3000", "/apply") >> }

\* a request whose instalment is below 100
LowInstalment ==
    [Personal EXCEPT !["loan_amount_requested"] = Num(10000),
                     !["loan_tenure_months"] = Num(480)]

\* the entries changed in the valid personal loan, one at a time
BodyChanges ==
    { << "gender", Absent >>, << "gender", Str("Other") >>,
      << "dependents", Num(11) >>,
      << "monthly_income", Num(0) >>, << "monthly_income", Str("abc") >>,
      << "monthly_income", Num(999) >>,
      << "existing_emis", Num(45000) >>, << "existing_emis", Num(50000) >>,
      << "loan_amount_requested", Num(1000) >>,
      << "loan_tenure_months", Num(1) >>, << "loan_tenure_months", Num(6) >>,
      << "name", Str("Rohan Sharma") >>, << "name", Str("<b>Rohan</b> Sharma") >>,
      << "name", Num(7) >>,
      << "property_value", Num(5000000) >> }

Bodies ==
    {Personal, Stressed, LowInstalment, NoApplicant}
    \cup LoanFamily(Personal)
    \cup { [Personal EXCEPT ![c[1]] = c[2]] : c \in BodyChanges }

\* a car loan that gives neither of the entries a car loan requires
CarLoanOnly == [Personal EXCEPT !["loan_type"] = Str("carLoan")]

Requests ==
    { Request("POST", "/predict", Header("http://localhost:5173", ""), NoHeader,
              NoCorrelation, body) : body \in Bodies }
    \cup
    { Request("POST", "/predict", h[1], h[2], NoCorrelation, body) :
        h \in HeaderSets, body \in {Personal, CarLoanOnly} }
    \cup
    { Request(method, path, h[1], h[2], h[3], NoApplicant) :
        method \in {"GET", "POST", "DELETE"},
        path \in {"/", "/health", "/predict", "/metrics"},
        h \in { << NoHeader, NoHeader, [present |-> TRUE, value |-> "req-1"] >>,
                << Header("http://localhost:5173", ""), NoHeader, NoCorrelation >> } }

\* the artifact files the application is started on
ApiFiles ==
    { PickleFile(TRUE, TRUE, "ok", TRUE, arts) :
        arts \in { Bundle(Classifier(78512, 1), Regressor(TRUE, 2, 3),
                          encoders_with_unknown, row_columns),
                   Bundle(Classifier(78512, 0), Regressor(TRUE, 2, 3),
                          encoders_with_unknown, row_columns),
                   Bundle(ClassifierRaises, Regressor(TRUE, 2, 3),
                          encoders_with_unknown, row_columns) } }
    \cup
    { PickleFile(FALSE, FALSE, "ok", FALSE, << >>),
      PickleFile(TRUE, TRUE, "UnpicklingError", FALSE, << >>),
      PickleFile(TRUE, TRUE, "PermissionError", FALSE, << >>),
      PickleFile(TRUE, TRUE, "ok", TRUE, [k \in required_keys \ {"scaler"} |-> "object"]) }

(***************************************************************************)
(* The state machine of the predictor.  An applicant mapping is given; a   *)
(* LoanPredictor is constructed from a pickle file; predict is then called *)
(* on the mapping, any number of times.                                    *)
(***************************************************************************)
\* the largest reading of the clock, in hundredths of a millisecond
MaxElapsed == 1

\* no file at all
NoFile == PickleFile(FALSE, FALSE, "ok", FALSE, << >>)

Unconstructed ==
    [state |-> "unconstructed", error |-> "none", artifacts |-> << >>, file |-> NoFile]

\* before the module main.py has run
UnsetPredictor == [kind |-> "Unset", artifacts |-> << >>]

NoApplication ==
    /\ app_state_predictor = UnsetPredictor
    /\ started = FALSE
    /\ window_hits = 0
    /\ received = NoRequest
    /\ response = NoResponse
    /\ handled = "none"

Init ==
    /\ applicant \in Applicants
    /\ predictor = Unconstructed
    /\ out = NoCall
    /\ prev = NoCall
    /\ invoked = Invoked(0, 0, 0)
    /\ row = << >>
    /\ NoApplication

\* LoanPredictor.__init__
Construct(file) ==
    /\ predictor.state = "unconstructed"
    /\ LET loaded == from_pickle(file) IN
       predictor' = IF loaded.raised = "none"
                    THEN [state |-> "ready", error |-> "none",
                          artifacts |-> loaded.artifacts, file |-> file]
                    ELSE [state |-> "failed", error |-> loaded.raised,
                          artifacts |-> << >>, file |-> file]
    /\ UNCHANGED <<applicant, out, prev, invoked, row>>
    /\ UNCHANGED apiVars

\* what a predict call leaves behind
Answer(call) ==
    /\ out' = call.outcome
    /\ invoked' = call.invoked
    /\ row' = call.features

\* predict writing the defaults of _build_features back into the mapping
\* it was given
predict_writing_defaults(elapsed_ms) ==
    /\ predictor.state = "ready"
    /\ Answer(predict(predictor.artifacts, applicant, elapsed_ms))
    /\ prev' = out
    /\ applicant' = IF _validate(applicant) = << >>
                    THEN [applicant EXCEPT
                            !["course_type"] = Str(OrUnknown(@)),
                            !["institution_tier"] = Str(OrUnknown(@))]
                    ELSE applicant
    /\ UNCHANGED predictor
    /\ UNCHANGED apiVars

\* LoanPredictor.predict
Predict(elapsed_ms) ==
    /\ predictor.state = "ready"
    /\ Answer(predict(predictor.artifacts, applicant, elapsed_ms))
    /\ prev' = out
    /\ UNCHANGED <<applicant, predictor>>
    /\ UNCHANGED apiVars

Next ==
    \/ \E file \in PickleFiles : Construct(file)
    \/ \E elapsed_ms \in 0..MaxElapsed : Predict(elapsed_ms)

Spec == Init /\ [][Next]_vars

(***************************************************************************)
(* The state machine of the application.  app.state.predictor is unset, or *)
(* set by a test fixture to None or to a mock; the application is started; *)
(* it then serves requests, one after the other.                           *)
(***************************************************************************)
InitApi ==
    /\ applicant = NoApplicant
    /\ predictor = Unconstructed
    /\ out = NoCall
    /\ prev = NoCall
    /\ invoked = Invoked(0, 0, 0)
    /\ row = << >>
    /\ app_state_predictor \in {UnsetPredictor, NonePredictor, MockPredictor}
    /\ started = FALSE
    /\ window_hits = 0
    /\ received = NoRequest
    /\ response = NoResponse
    /\ handled = "none"

\* the startup of lifespan
Startup(file) ==
    /\ ~started
    /\ started' = TRUE
    /\ app_state_predictor' = lifespan(file)
    /\ UNCHANGED <<window_hits, received, response, handled>>
    /\ UNCHANGED coreVars

\* what serving a request leaves behind
Serve(served) ==
    /\ response' = served.reply
    /\ handled' = served.handler
    /\ window_hits' = served.hits
    /\ applicant' = served.applicant
    /\ Answer(served.call)

\* the application on one request
Handle(req, elapsed_ms) ==
    /\ started
    /\ received' = req
    /\ Serve(csrf_protection_middleware(app_state_predictor, req, window_hits, elapsed_ms))
    /\ UNCHANGED <<app_state_predictor, started, predictor, prev>>

\* the window of the rate limiter ends
WindowExpires ==
    /\ started
    /\ window_hits > 0
    /\ window_hits' = 0
    /\ UNCHANGED <<app_state_predictor, started, received, response, handled>>
    /\ UNCHANGED coreVars

NextApi ==
    \/ \E file \in ApiFiles : Startup(file)
    \/ \E req \in Requests, elapsed_ms \in 0..MaxElapsed : Handle(req, elapsed_ms)
    \/ WindowExpires

SpecApi == InitApi /\ [][NextApi]_vars

(***************************************************************************)
(* Properties of the prediction facade.                                    *)
(***************************************************************************)
\* the latest call returned a result mapping of a prediction
Success == out.kind = "returned" /\ out.value.status = "success"

\* the latest call returned the mapping of a validation failure
ErrorResult == out.kind = "returned" /\ out.value.status = "error"

\* C1: in every success result, approved is false exactly when the list of
\* rejection reasons is non-empty; an approved result has an empty list and
\* a rejected one has at least one reason.
C1_RejectionInvariant ==
    Success =>
        /\ out.value.approved => out.value.rejection_reasons = << >>
        /\ ~out.value.approved => Len(out.value.rejection_reasons) >= 1
        /\ out.value.approved = FALSE <=> out.value.rejection_reasons # << >>

\* a rejection on which no rule of the reason list fires
C1_Witness ==
    /\ Success
    /\ ~out.value.approved
    /\ rule_reasons(row, applicant) = << >>
    /\ out.value.rejection_reasons = << Reason("borderline", "generic") >>

\* C2: in every success result the sanctioned amount is an integer from 0
\* to the requested amount inclusive, and is 0 when the loan is not approved.
C2_SanctionedWithinRequest ==
    Success =>
        /\ out.value.sanctioned_amount \in 0..applicant["loan_amount_requested"].n
        /\ out.value.loan_amount_requested = applicant["loan_amount_requested"].n
        /\ ~out.value.approved => out.value.sanctioned_amount = 0

\* an approval whose regressor answered twice the requested amount
C2_Witness ==
    /\ Success
    /\ out.value.approved
    /\ predictor.artifacts.regressor = Regressor(TRUE, 2, 1)
    /\ out.value.sanctioned_amount = applicant["loan_amount_requested"].n

\* the call before the latest returned a result mapping of a prediction
PrevSuccess == prev.kind = "returned" /\ prev.value.status = "success"

\* C3 as stated: two calls of predict on the same valid applicant with the
\* same artifacts return mappings in which every key has the same value.
C3_EveryKeyIdentical ==
    PrevSuccess =>
        /\ Success
        /\ DOMAIN out.value = DOMAIN prev.value
        /\ \A k \in DOMAIN out.value : out.value[k] = prev.value[k]

\* C3: two calls of predict on the same valid applicant with the same
\* artifacts return mappings with the same keys, in which every key other
\* than processing_time_ms has the same value.
C3_IdenticalButElapsedTime ==
    PrevSuccess =>
        /\ Success
        /\ DOMAIN out.value = DOMAIN prev.value
        /\ \A k \in DOMAIN out.value \ {"processing_time_ms"} :
              out.value[k] = prev.value[k]

\* two successful calls for which the clock measured different times
C3_Witness ==
    /\ PrevSuccess
    /\ Success
    /\ out.value.processing_time_ms # prev.value.processing_time_ms
    /\ out.value.rejection_reasons = prev.value.rejection_reasons

\* C4: when validation finds errors, predict returns exactly the mapping
\* {status: "error", errors: the list}, raises nothing, and invokes neither
\* the classifier, nor the regressor, nor an encoder.
C4_ValidationErrorResult ==
    (out.kind # "none" /\ _validate(applicant) # << >>) =>
        /\ out = Returned([status |-> "error", errors |-> _validate(applicant)])
        /\ invoked = Invoked(0, 0, 0)
        /\ row = << >>

\* an error result of several messages from a predictor whose models answer
C4_Witness ==
    /\ ErrorResult
    /\ Len(out.value.errors) >= 2
    /\ ~predictor.artifacts.classifier.raises
    /\ invoked = Invoked(0, 0, 0)

\* C5: an exception raised anywhere in feature building, encoding, model
\* invocation or result composition leaves predict as a PredictionError
\* that keeps the original as its cause; no other exception leaves predict.
C5_FailuresBecomePredictionError ==
    /\ out.kind = "raised" => out.exc = "PredictionError" /\ out.cause # "none"
    /\ (out.kind # "none" /\ _validate(applicant) = << >>
        /\ _run_prediction(predictor.artifacts, applicant).raised # "none")
       => out = Raised("PredictionError",
                       _run_prediction(predictor.artifacts, applicant).raised)

\* a feature column the row lacks made the column selection raise KeyError
C5_Witness ==
    /\ out.kind = "raised"
    /\ out.exc = "PredictionError"
    /\ out.cause = "KeyError"

\* C6: for an applicant that passed validation every denominator in the
\* feature computation and in the result composition is non-zero, and no
\* division by zero is raised.
C6_NoZeroDenominator ==
    (out.kind # "none" /\ _validate(applicant) = << >>) =>
        /\ \A k \in DOMAIN feature_denominators(applicant) :
              feature_denominators(applicant)[k] # 0
        /\ ltv_divides(applicant) => applicant["property_value"].n # 0
        /\ (Success /\ out.value.sanctioned_amount > 0) =>
              \A k \in DOMAIN result_denominators(applicant) :
                 result_denominators(applicant)[k] # 0
        /\ out.cause # "ZeroDivisionError"

\* an amount sanctioned over the smallest tenure the validator lets pass
C6_Witness ==
    /\ Success
    /\ out.value.sanctioned_amount > 0
    /\ applicant["loan_tenure_months"].n = 1
    /\ applicant["dependents"].n = 0

\* the grades from the lowest to the highest
GradeOrder ==
    << "E  (High Risk)", "D  (Below Average)", "C  (Average)", "B  (Good)",
       "A  (Very Good)", "A+ (Excellent)" >>

GradeRank(g) == CHOOSE i \in 1..Len(GradeOrder) : GradeOrder[i] = g

\* C7: the grade never gets lower as the probability rises, and it changes
\* exactly at 0.50, 0.60, 0.70, 0.80 and 0.90, each of which already gets
\* the higher grade.
C7_GradeMonotone ==
    Success =>
        LET p == predictor.artifacts.classifier.prob
            g == out.value.loan_grade
        IN  /\ g \in { GradeOrder[i] : i \in 1..Len(GradeOrder) }
            /\ GradeRank(g) =
                 1 + Cardinality({ t \in {50000, 60000, 70000, 80000, 90000} : p >= t })
            /\ \A q \in ProbValues :
                 /\ q <= p => GradeRank(_loan_grade(q)) <= GradeRank(g)
                 /\ p <= q => GradeRank(g) <= GradeRank(_loan_grade(q))

\* a probability of exactly 0.90 graded A+
C7_Witness ==
    /\ Success
    /\ predictor.artifacts.classifier.prob = 90000
    /\ out.value.loan_grade = "A+ (Excellent)"

\* a personal loan of 500,000 over 60 months on an income of 50,000 with
\* credit score 720 and no co-applicant income, EMIs or loans
PersonalLoanScenario ==
    /\ applicant["loan_type"] = Str("personalLoan")
    /\ applicant["monthly_income"] = Num(50000)
    /\ applicant["coapplicant_income"] = Num(0)
    /\ applicant["credit_score"] = Num(720)
    /\ applicant["existing_emis"] = Num(0)
    /\ applicant["existing_loans_count"] = Num(0)
    /\ applicant["loan_amount_requested"] = Num(500000)
    /\ applicant["loan_tenure_months"] = Num(60)

\* C8 as stated: in that scenario the feature row has credit_score_band 6,
\* monthly_emi_projected 8333.33 and debt_to_income_ratio 0.1667.
C8_BandSix ==
    (PersonalLoanScenario /\ row # << >>) =>
        /\ row.credit_score_band = 6
        /\ row.monthly_emi_projected = 833333
        /\ row.debt_to_income_ratio = 1667

\* C8: in that scenario the feature row has credit_score_band 5, the label
\* of the bin (700, 750], monthly_emi_projected 8333.33 and
\* debt_to_income_ratio 0.1667.
C8_BandFive ==
    (PersonalLoanScenario /\ row # << >>) =>
        /\ row.credit_score_band = 5
        /\ row.monthly_emi_projected = 833333
        /\ row.debt_to_income_ratio = 1667

\* the feature row of a successful call in that scenario
C8_Witness ==
    /\ PersonalLoanScenario
    /\ Success
    /\ row # << >>
    /\ row.credit_score = 720
    /\ row.credit_score_band = 5

\* the rule groups in the order of their messages
ReasonGroups ==
    << "credit_score", "debt_to_income", "free_monthly_income", "existing_loans",
       "loan_to_income" >>

GroupPosition(g) == CHOOSE i \in 1..Len(ReasonGroups) : ReasonGroups[i] = g

\* whether the hard, or the soft, threshold of a rule group is met
HardMet(g) ==
    CASE g = "credit_score" -> applicant["credit_score"].n < 600
      [] g = "debt_to_income" -> row.debt_to_income_ratio > 6500
      [] g = "free_monthly_income" -> row.free_monthly_income <= 0
      [] g = "existing_loans" -> applicant["existing_loans_count"].n >= 4
      [] g = "loan_to_income" -> row.loan_to_income_ratio > 400000

SoftMet(g) ==
    CASE g = "credit_score" -> applicant["credit_score"].n < 650
      [] g = "debt_to_income" -> row.debt_to_income_ratio > 5000
      [] g = "free_monthly_income" -> row.free_monthly_income < 500000
      [] g = "existing_loans" -> applicant["existing_loans_count"].n >= 3
      [] g = "loan_to_income" -> FALSE

\* C10: the reason list of a rejection has 1 to 5 messages, at most one per
\* rule group and in the order credit score, debt-to-income, free monthly
\* income, existing loans, loan-to-income; a group whose hard threshold is
\* met gives its hard message, never its soft one; and credit score 550,
\* debt-to-income 0.7, 4 existing loans and loan-to-income 45 give the hard
\* messages of those four groups in that order.
C10_ReasonList ==
    (Success /\ ~out.value.approved) =>
        LET reasons == out.value.rejection_reasons
            n == Len(reasons)
            hard4 == SelectSeq(reasons,
                        LAMBDA r : r.level = "hard" /\ r.group # "free_monthly_income")
        IN  /\ n \in 1..5
            /\ reasons # << Reason("borderline", "generic") >> =>
                 /\ \A i \in 1..n : reasons[i].group \in { ReasonGroups[j] : j \in 1..5 }
                 /\ \A i, j \in 1..n :
                      i < j => GroupPosition(reasons[i].group) < GroupPosition(reasons[j].group)
                 /\ \A i \in 1..n :
                      /\ reasons[i].level = "hard" => HardMet(reasons[i].group)
                      /\ reasons[i].level = "soft" =>
                            SoftMet(reasons[i].group) /\ ~HardMet(reasons[i].group)
            /\ \A j \in 1..5 :
                 HardMet(ReasonGroups[j]) =>
                    \E i \in 1..n : reasons[i] = Reason(ReasonGroups[j], "hard")
            /\ (/\ applicant["credit_score"].n = 550
                /\ row.debt_to_income_ratio = 7000
                /\ applicant["existing_loans_count"].n = 4
                /\ row.loan_to_income_ratio = 450000)
               => hard4 = << Reason("credit_score", "hard"), Reason("debt_to_income", "hard"),
                             Reason("existing_loans", "hard"), Reason("loan_to_income", "hard") >>

\* the rejection of credit score 550, debt-to-income 0.7, 4 existing loans
\* and loan-to-income 45, with a message from each of the five groups
C10_Witness ==
    /\ Success
    /\ ~out.value.approved
    /\ applicant["credit_score"].n = 550
    /\ row.debt_to_income_ratio = 7000
    /\ applicant["existing_loans_count"].n = 4
    /\ row.loan_to_income_ratio = 450000
    /\ Len(out.value.rejection_reasons) = 5

\* the messages of the latest call, none if it returned no error result
Errors == IF ErrorResult THEN out.value.errors ELSE << >>

\* the fields the messages of one kind name
Named(kind) == { Errors[i].field : i \in { j \in 1..Len(Errors) : Errors[j].kind = kind } }

\* the base fields the applicant lacks, and its numeric fields whose value
\* is neither an int nor a float
MissingBase == { f \in Elems(required_base) : applicant[f].t = "absent" }
NonNumeric == { f \in Elems(numeric_fields) : applicant[f].t \in {"str", "none"} }

\* C11: if a base field is missing, the validator returns one 'Missing
\* required field' message per missing field and nothing else; otherwise,
\* if a numeric field is not an int or float, it returns one type message
\* per such field and no categorical, conditional, range or total-income
\* message.
C11_StagesShortCircuit ==
    out.kind # "none" =>
        /\ MissingBase # {} =>
              /\ ErrorResult
              /\ \A i \in 1..Len(Errors) : Errors[i].kind = "missing"
              /\ Named("missing") = MissingBase
              /\ Len(Errors) = Cardinality(MissingBase)
        /\ (MissingBase = {} /\ NonNumeric # {}) =>
              /\ ErrorResult
              /\ \A i \in 1..Len(Errors) : Errors[i].kind = "type"
              /\ Named("type") = NonNumeric
              /\ Len(Errors) = Cardinality(NonNumeric)

\* a car loan without its vehicle fields, with age "abc", credit score 901
\* and gender "Other", answered with the one type message
C11_Witness ==
    /\ ErrorResult
    /\ MissingBase = {}
    /\ applicant["age"] = Str("abc")
    /\ applicant["credit_score"] = Num(901)
    /\ applicant["gender"] = Str("Other")
    /\ applicant["loan_type"] = Str("carLoan")
    /\ ~Has(applicant, "vehicle_price")
    /\ Errors = << ErrMsg("type", "age", "") >>

\* the closed intervals of the range-bounded fields
ClosedInterval ==
    [ age |-> 18..70, credit_score |-> 300..900, monthly_income |-> 1000..10000000,
      coapplicant_income |-> 0..10000000, loan_amount_requested |-> 1000..100000000,
      loan_tenure_months |-> 1..480, dependents |-> 0..10, existing_loans_count |-> 0..20,
      existing_emis |-> 0..10000000, years_of_experience |-> 0..50 ]

\* C12: for a record that passes the presence and type stages, the
\* validator returns a range message for a range-bounded field exactly when
\* the value of the field lies outside its closed interval, the two ends
\* being accepted, and one message for every such field.
C12_RangeMessages ==
    (out.kind # "none" /\ MissingBase = {} /\ NonNumeric = {}) =>
        /\ DOMAIN ClosedInterval = Elems(NUMERIC_RANGES_fields)
        /\ \A f \in DOMAIN ClosedInterval :
              /\ NUMERIC_RANGES[f].lo..NUMERIC_RANGES[f].hi = ClosedInterval[f]
              /\ f \in Named("range") <=> applicant[f].n \notin ClosedInterval[f]
              /\ Cardinality({ i \in 1..Len(Errors) :
                                  Errors[i] = ErrMsg("range", f, "") }) <= 1

\* age 71, credit score 901 and 11 dependents, each with its range message
C12_Witness ==
    /\ ErrorResult
    /\ applicant["age"] = Num(71)
    /\ applicant["credit_score"] = Num(901)
    /\ applicant["dependents"] = Num(11)
    /\ Named("range") = {"age", "credit_score", "dependents"}
    /\ Len(Errors) = 3

\* the fields each loan type requires beside the base fields: property
\* value for home loans, vehicle price and age for car and bike loans,
\* course type and institution tier for education loans
Additional ==
    [ homeLoan |-> {"property_value"},
      carLoan |-> {"vehicle_price", "vehicle_age_years"},
      bikeLoan |-> {"vehicle_price", "vehicle_age_years"},
      educationLoan |-> {"course_type", "institution_tier"},
      personalLoan |-> {} ]

\* C13 as stated: no conditional field is required by two different loan
\* types, in the table of the validator and in that of the request schema,
\* and personalLoan requires none; so a field the validator asks of a
\* record is required of the loan type of the record alone.
C13_PairwiseDisjoint ==
    /\ \A lt1, lt2 \in DOMAIN LOAN_TYPE_REQUIRED :
          lt1 # lt2 =>
             Elems(LOAN_TYPE_REQUIRED[lt1]) \cap Elems(LOAN_TYPE_REQUIRED[lt2]) = {}
    /\ \A lt1, lt2 \in DOMAIN _LOAN_TYPE_REQUIRED_FIELDS :
          lt1 # lt2 =>
             Elems(_LOAN_TYPE_REQUIRED_FIELDS[lt1])
                \cap Elems(_LOAN_TYPE_REQUIRED_FIELDS[lt2]) = {}
    /\ LOAN_TYPE_REQUIRED["personalLoan"] = << >>
    /\ _LOAN_TYPE_REQUIRED_FIELDS["personalLoan"] = << >>
    /\ \A f \in Named("required_for") :
          \A lt \in DOMAIN LOAN_TYPE_REQUIRED \ {applicant["loan_type"].s} :
             f \notin Elems(LOAN_TYPE_REQUIRED[lt])

\* C13: the two tables require the same fields of each loan type; carLoan
\* and bikeLoan require the same two fields, vehicle_price and
\* vehicle_age_years, and no other two loan types share a field;
\* personalLoan requires none; and the validator asks of a record exactly
\* the fields of its loan type that the record lacks.
C13_DisjointButCarAndBike ==
    /\ DOMAIN LOAN_TYPE_REQUIRED = DOMAIN Additional
    /\ DOMAIN _LOAN_TYPE_REQUIRED_FIELDS = DOMAIN Additional
    /\ \A lt \in DOMAIN Additional :
          /\ Elems(LOAN_TYPE_REQUIRED[lt]) = Additional[lt]
          /\ Elems(_LOAN_TYPE_REQUIRED_FIELDS[lt]) = Additional[lt]
    /\ \A lt1, lt2 \in DOMAIN LOAN_TYPE_REQUIRED :
          (lt1 # lt2 /\ {lt1, lt2} # {"carLoan", "bikeLoan"}) =>
             Elems(LOAN_TYPE_REQUIRED[lt1]) \cap Elems(LOAN_TYPE_REQUIRED[lt2]) = {}
    /\ Elems(LOAN_TYPE_REQUIRED["carLoan"]) \cap Elems(LOAN_TYPE_REQUIRED["bikeLoan"])
          = {"vehicle_price", "vehicle_age_years"}
    /\ LOAN_TYPE_REQUIRED["personalLoan"] = << >>
    /\ (out.kind # "none" /\ MissingBase = {} /\ NonNumeric = {}
        /\ applicant["loan_type"].s \in DOMAIN Additional) =>
          Named("required_for") =
             { f \in Additional[applicant["loan_type"].s] : applicant[f].t = "absent" }

\* a bike loan without vehicle_price, the field a car loan requires too,
\* answered with the message that it is required for bikeLoan
C13_Witness ==
    /\ ErrorResult
    /\ applicant["loan_type"] = Str("bikeLoan")
    /\ ~Has(applicant, "vehicle_price")
    /\ ErrMsg("required_for", "vehicle_price", "bikeLoan") \in Elems(Errors)
    /\ "vehicle_price" \in Elems(LOAN_TYPE_REQUIRED["carLoan"])

\* the file the constructor was given is absent, is not a file, cannot be
\* read, is corrupt, holds no mapping, or lacks one of the five keys
Unloadable(file) ==
    \/ ~file.exists
    \/ ~file.is_file
    \/ file.load # "ok"
    \/ ~file.mapping
    \/ ~({"classifier", "regressor", "scaler", "label_encoders", "feature_columns"}
            \subseteq DOMAIN file.arts)

\* C14: the constructor fails with ArtifactLoadError, and with no other
\* exception, when the file is absent, is not a file, cannot be read, is
\* corrupt or holds no mapping, or lacks one of the keys classifier,
\* regressor, scaler, label_encoders and feature_columns; it gives an
\* artifact object only when all five keys are present.
C14_OnlyArtifactLoadError ==
    predictor.state # "unconstructed" =>
        /\ Unloadable(predictor.file) =>
              predictor.state = "failed" /\ predictor.error = "ArtifactLoadError"
        /\ predictor.state = "ready" => ~Unloadable(predictor.file)

\* C25: for a validated applicant whose loan type is not homeLoan the
\* feature row has ltv_ratio 0; for a home loan it has
\* loan_amount_requested / property_value, rounded to 4 decimals, when
\* property_value > 0 and 0 otherwise.
C25_LtvOnlyForHomeLoans ==
    row # << >> =>
        IF applicant["loan_type"] # Str("homeLoan") THEN row.ltv_ratio = 0
        ELSE IF IsNumber(applicant["property_value"]) /\ applicant["property_value"].n > 0
        THEN row.ltv_ratio = Round(applicant["loan_amount_requested"].n,
                                   applicant["property_value"].n, 4)
        ELSE row.ltv_ratio = 0

\* the position the encoder of a column gives the category "Unknown"
UnknownCode(col) ==
    LET classes == predictor.artifacts.label_encoders[col]
    IN  (CHOOSE i \in 1..Len(classes) : classes[i] = "Unknown") - 1

\* C26: for every applicant that passes the validator and every set of
\* label encoders, encoders without the class "Unknown" and absent
\* encoders included, _build_features returns a feature row and raises
\* nothing; an absent encoder encodes as 0 and an absent course_type or
\* institution_tier as the category "Unknown".
C26_BuildFeaturesNeverFails ==
    (out.kind # "none" /\ _validate(applicant) = << >>) =>
        /\ _build_features(predictor.artifacts.label_encoders, applicant).raised = "none"
        /\ row # << >>
        /\ \A col \in {"course_type", "institution_tier"} :
              IF col \notin DOMAIN predictor.artifacts.label_encoders
              THEN row[col \o "_enc"] = 0
              ELSE ~Has(applicant, col) =>
                      /\ "Unknown" \in Elems(predictor.artifacts.label_encoders[col])
                      /\ row[col \o "_enc"] = UnknownCode(col)

C29_ApprovedHasSanction ==
    Success =>
        /\ out.value.approved =>
              /\ out.value.sanctioned_amount >= 1
              /\ out.value.sanction_ratio > 0
              /\ out.value.breakdown.loan_metrics.sanctioned_amount # NotAvailable
              /\ out.value.breakdown.loan_metrics.monthly_emi_if_approved # NotAvailable
        /\ (out.value.breakdown.loan_metrics.sanctioned_amount = NotAvailable)
              <=> ~out.value.approved

\* C30: for a validated applicant, a rejection that gives the hard reason
\* of free monthly income (free_monthly_income <= 0) gives the hard reason
\* of debt-to-income (debt_to_income_ratio > 0.65) as well: the free income
\* is 0 or less only when the EMIs reach the total income.
C30_HardFreeIncomeImpliesHardDti ==
    /\ row # << >> =>
          (row.free_monthly_income <= 0 => row.debt_to_income_ratio > 6500)
    /\ (Success /\ ~out.value.approved) =>
          (Reason("free_monthly_income", "hard") \in Elems(out.value.rejection_reasons)
             => Reason("debt_to_income", "hard") \in Elems(out.value.rejection_reasons))

\* a rejection with both hard reasons, the EMIs being above the income
C30_Witness ==
    /\ Success
    /\ ~out.value.approved
    /\ row.free_monthly_income < 0
    /\ Reason("free_monthly_income", "hard") \in Elems(out.value.rejection_reasons)
    /\ Reason("debt_to_income", "hard") \in Elems(out.value.rejection_reasons)

(***************************************************************************)
(* Properties of the application.                                          *)
(***************************************************************************)
\* the latest request was a POST to /predict and has been answered
PredictPosted ==
    /\ received.method = "POST"
    /\ received.path = "/predict"
    /\ response # NoResponse

\* the Origin header of the latest request or, when it has none, its
\* Referer header begins with an allowed origin
FromAllowedSource ==
    LET source == IF received.origin.present THEN received.origin ELSE received.referer
    IN  source.present /\ source.prefix \in ALLOWED_ORIGINS

\* every base field of the body is present and its numeric fields are numbers
BaseFieldsGiven ==
    /\ \A f \in Elems(required_base) : Has(received.body, f)
    /\ \A f \in Elems(numeric_fields) :
          Has(received.body, f) => IsNumber(received.body[f])

SchemaValid == LoanPredictRequest(received.body).errors = << >>

\* the latest request was a GET to the given path and has been answered
Got(path) ==
    /\ received.method = "GET"
    /\ received.path = path
    /\ response # NoResponse

\* C15 as stated: when the artifact file is missing or the construction of
\* the predictor raises during startup, which is when the startup leaves
\* app.state.predictor None, the application serves no request.
C15_StartupFatal ==
    (started /\ app_state_predictor = NonePredictor) =>
        response = NoResponse /\ handled = "none"

\* C15: a load failure at startup is not fatal.  The startup leaves
\* app.state.predictor None when the file is missing or the construction
\* raises, whatever it raises; the application then serves requests: GET /
\* answers 200 with model_loaded false, GET /health answers 503, a POST
\* that reaches the route predict answers 503, and no prediction is made.
C15_StartupDegrades ==
    /\ \A file \in ApiFiles :
          Unloadable(file) => lifespan(file) = NonePredictor
    /\ started => app_state_predictor.kind \in {"None", "LoanPredictor"}
    /\ (started /\ app_state_predictor = NonePredictor /\ response # NoResponse) =>
          /\ out = NoCall
          /\ Got("/") => response.status = 200 /\ ~response.content.model_loaded
          /\ Got("/health") => response.status = 503
          /\ handled = "predict" => response.status = 503
          /\ received.path = "/predict" => response.status # 200

\* a schema-valid POST answered 503 by the route predict of an application
\* whose startup found no loadable artifacts
C15_Witness ==
    /\ started
    /\ app_state_predictor = NonePredictor
    /\ PredictPosted
    /\ SchemaValid
    /\ handled = "predict"
    /\ response.status = 503

\* C16: every schema-valid POST to /predict is answered 503 when
\* app.state.predictor is None.
C16_UnavailableWithoutPredictor ==
    (PredictPosted /\ SchemaValid /\ app_state_predictor = NonePredictor) =>
        response.status = 503

\* C17: GET /health answers 200 with status "ok" and model_loaded true
\* exactly when app.state.predictor is not None, and otherwise 503 with
\* status "degraded" and model_loaded false; GET / answers 200 in both
\* cases with model_loaded telling the same.
C17_HealthReflectsPredictor ==
    /\ Got("/health") =>
          IF app_state_predictor # NonePredictor
          THEN /\ response.status = 200
               /\ response.content.status = "ok"
               /\ response.content.model_loaded
          ELSE /\ response.status = 503
               /\ response.content.status = "degraded"
               /\ ~response.content.model_loaded
    /\ Got("/") =>
          /\ response.status = 200
          /\ response.content.model_loaded = (app_state_predictor # NonePredictor)

\* GET /health answered 503 "degraded" by an application without predictor
C17_Witness ==
    /\ Got("/health")
    /\ app_state_predictor = NonePredictor
    /\ response.status = 503
    /\ response.content.status = "degraded"

\* the latest request was a POST to /predict that passed the CSRF check
\* and the request schema while a predictor was loaded
PredictReached ==
    /\ PredictPosted
    /\ FromAllowedSource
    /\ SchemaValid
    /\ app_state_predictor.kind = "LoanPredictor"

\* what the route answers to the outcome of the predict call
AnswersOutcome ==
    /\ out.kind # "none"
    /\ (out.kind = "raised" /\ out.exc = "PredictionError") => response.status = 500
    /\ (out.kind = "returned" /\ out.value.status = "error") => response.status = 422
    /\ (out.kind = "returned" /\ out.value.status # "error") =>
          /\ response.status = 200
          /\ response.content = out.value
          /\ response.content.approved = out.value.approved
          /\ response.content.breakdown = out.value.breakdown

\* C18 as stated: such a request is answered 500 if predict raises
\* PredictionError, 422 if it returns a result with status "error", and
\* otherwise 200 with the result of the predictor unchanged.
C18_PredictStatuses == PredictReached => AnswersOutcome

\* C18: such a request is so answered when it is within the limit of 10
\* requests a minute, which is when the route runs; beyond the limit it is
\* answered 429 and predict is not called.
C18_PredictStatusesWithinLimit ==
    PredictReached =>
        /\ handled = "predict" => AnswersOutcome
        /\ handled # "predict" => response.status = 429 /\ out = NoCall

\* a request answered 200 with the approval the predictor returned
C18_Witness ==
    /\ PredictReached
    /\ handled = "predict"
    /\ response.status = 200
    /\ Success
    /\ response.content.approved
    /\ response.content.breakdown = out.value.breakdown

\* C19: the request schema rejects every request whose existing_emis is
\* greater than or equal to its monthly_income, which the application
\* answers 422 before the route runs.
C19_EmisBelowIncome ==
    (/\ PredictPosted
     /\ IsNumber(received.body["existing_emis"])
     /\ IsNumber(received.body["monthly_income"])
     /\ received.body["existing_emis"].n >= received.body["monthly_income"].n) =>
        /\ ~SchemaValid
        /\ FromAllowedSource =>
              response.status = 422 /\ response.kind = "request_validation"

\* the body with the loan type and the conditional fields given
WithLoan(body, lt, vp, va) ==
    [body EXCEPT !["loan_type"] = lt, !["property_value"] = Absent,
                 !["vehicle_price"] = vp, !["vehicle_age_years"] = va,
                 !["course_type"] = Absent, !["institution_tier"] = Absent]

\* the latest request asked for a car loan, its base fields pass the schema
\* and vehicle_price is the one conditional field it gives
CarLoanWithPriceOnly ==
    /\ PredictPosted
    /\ received.body["loan_type"] = Str("carLoan")
    /\ LoanPredictRequest(
          WithLoan(received.body, Str("personalLoan"), Absent, Absent)).errors = << >>
    /\ received.body = WithLoan(received.body, Str("carLoan"), Num(800000), Absent)

C21_CoreChecksSubsetOfSchema ==
    (PredictPosted /\ SchemaValid) =>
        /\ _validate(_request_to_applicant(LoanPredictRequest(received.body).model)) = << >>
        /\ response.kind # "prediction_layer"
        /\ ~ErrorResult

\* C22: a predictor that is on app.state.predictor when the startup runs is
\* still there when the startup has run.
C22_InstalledPredictorSurvivesStartup ==
    [][(~started /\ started' /\ app_state_predictor = MockPredictor) =>
            app_state_predictor' = MockPredictor]_vars

\* the header names an allowed origin: it is the origin itself, or a page
\* of it
MatchesAllowedOrigin(header) ==
    /\ header.present
    /\ header.prefix \in ALLOWED_ORIGINS
    /\ header.rest \in {"", "/apply"}

\* C23: a request whose method is not GET, HEAD, OPTIONS or TRACE passes
\* the CSRF check exactly when its Origin header or its Referer header
\* names an allowed origin; otherwise it is answered 403 and no route
\* handler runs; a request with a safe method is never answered 403.
C23_CsrfByOriginOrReferer ==
    response # NoResponse =>
        /\ response.status = 403 => handled = "none" /\ out = NoCall
        /\ IF received.method \in {"GET", "HEAD", "OPTIONS", "TRACE"}
           THEN response.status # 403
           ELSE response.status # 403 <=>
                   \/ MatchesAllowedOrigin(received.origin)
                   \/ MatchesAllowedOrigin(received.referer)

\* C24: every response, the 403 of the CSRF check included, carries an
\* X-Correlation-ID header, which is the one of the request when the
\* request has one.
C24_EveryResponseCorrelated ==
    response # NoResponse =>
        /\ response.correlation_id.present
        /\ received.correlation_id.present =>
              response.correlation_id = received.correlation_id

\* C28: the applicant_name of a 200 answer to POST /predict is the name
\* of the request body, as the schema holds it, when the body gives one,
\* and "Applicant" when it gives none.
C28_NameReachesResponse ==
    (PredictPosted /\ handled = "predict" /\ response.status = 200) =>
        IF LoanPredictRequest(received.body).model["name"].t = "str"
        THEN response.content.applicant_name =
                LoanPredictRequest(received.body).model["name"]
        ELSE response.content.applicant_name = Str("Applicant")

====
